---- MODULE Spec2Model ----
(***************************************************************************)
(* Model of the PST ingestion pipeline (pst_parser.py): archive traversal, *)
(* message normalisation, dedupe / thread keys, entity resolution and the  *)
(* batched upsert into the emails table.                                   *)
(*                                                                         *)
(* Text is modelled as sequences of one-character strings, so that the     *)
(* string functions of the source (strip, lower, capitalize, split, the    *)
(* regular expression of generate_thread_id) are computed, not assumed.    *)
(***************************************************************************)
EXTENDS Integers, Sequences, FiniteSets, TLC

\* ------------------------------------------------------------------------
\* Bounds of the model
\* ------------------------------------------------------------------------
MaxMsgs == 2        \* messages per archive
MaxReMsgs == 2      \* messages per archive when archives are re-ingested
MaxRuns == 2        \* ingestion runs in one behaviour
MaxBatch == 2       \* largest batch_size tried
MaxFaults == 2      \* storage calls that may fail in one behaviour
MaxConcMsgs == 2    \* messages per archive of a concurrent instance
MaxBodyMsgs == 2    \* messages per archive when bodies are long
MaxFolderMsgs == 1  \* messages per folder of the archives with a folder tree
MaxEnrichMsgs == 1  \* messages per archive when the enrichment runs
MaxEnrichFaults == 1    \* calls of the enrichment that may fail in one behaviour
MaxImportMsgs == 2  \* messages per archive uploaded to the import page
MaxImportFaults == 1    \* storage calls that may fail while the import page runs

\* ------------------------------------------------------------------------
\* Text helpers
\* ------------------------------------------------------------------------
\* Python's None
NULL == <<"None">>

LowerChars == <<"a","b","c","d","e","f","g","h","i","j","k","l","m",
                "n","o","p","q","r","s","t","u","v","w","x","y","z">>
UpperChars == <<"A","B","C","D","E","F","G","H","I","J","K","L","M",
                "N","O","P","Q","R","S","T","U","V","W","X","Y","Z">>

\* str.lower() / str.upper() on one character
LowerChar(c) ==
    IF \E i \in 1..26 : UpperChars[i] = c
    THEN LowerChars[CHOOSE i \in 1..26 : UpperChars[i] = c]
    ELSE c

UpperChar(c) ==
    IF \E i \in 1..26 : LowerChars[i] = c
    THEN UpperChars[CHOOSE i \in 1..26 : LowerChars[i] = c]
    ELSE c

RECURSIVE Lower(_)
Lower(s) == IF s = <<>> THEN <<>> ELSE <<LowerChar(Head(s))>> \o Lower(Tail(s))

\* str.capitalize(): first character upper-cased, the rest lower-cased
Capitalize(s) ==
    IF s = <<>> THEN <<>> ELSE <<UpperChar(Head(s))>> \o Lower(Tail(s))

IsSpace(c) == c \in {" ", "\t", "\n"}

RECURSIVE LStrip(_)
LStrip(s) == IF s # <<>> /\ IsSpace(Head(s)) THEN LStrip(Tail(s)) ELSE s

RECURSIVE RStrip(_)
RStrip(s) ==
    IF s # <<>> /\ IsSpace(s[Len(s)]) THEN RStrip(SubSeq(s, 1, Len(s) - 1)) ELSE s

\* str.strip()
Strip(s) == RStrip(LStrip(s))

\* str.replace("\x00", ""): the NUL byte is written "0" here
NUL == "0"
NotNul(c) == c # NUL
RemoveNul(s) == SelectSeq(s, NotNul)

\* clean_text(text)
clean_text(text) ==
    IF text = NULL \/ text = <<>> THEN <<>> ELSE Strip(RemoveNul(text))

\* s[:n]
Prefix(s, n) == SubSeq(s, 1, IF Len(s) < n THEN Len(s) ELSE n)

StartsWith(s, p) == Len(s) >= Len(p) /\ SubSeq(s, 1, Len(p)) = p

Drop(s, n) == SubSeq(s, n + 1, Len(s))

EndsWith(s, p) == Len(s) >= Len(p) /\ SubSeq(s, Len(s) - Len(p) + 1, Len(s)) = p

\* code-point order of the characters the model uses (ASCII order)
Alphabet == <<"\t", "\n", " ", "+", ",", "-", ".", "0", "1", "2", "3", ":", "@",
              "A","B","C","D","E","F","G","H","I","J","K","L","M",
              "N","O","P","Q","R","S","T","U","V","W","X","Y","Z",
              "[", "]",
              "a","b","c","d","e","f","g","h","i","j","k","l","m",
              "n","o","p","q","r","s","t","u","v","w","x","y","z", "|">>

Code(c) == CHOOSE i \in 1..Len(Alphabet) : Alphabet[i] = c

\* Python's < on str
RECURSIVE StrLess(_, _)
StrLess(a, b) ==
    IF b = <<>> THEN FALSE
    ELSE IF a = <<>> THEN TRUE
    ELSE IF Head(a) = Head(b) THEN StrLess(Tail(a), Tail(b))
    ELSE Code(Head(a)) < Code(Head(b))

\* sorted(S) for a set of strings
RECURSIVE Sorted(_)
Sorted(S) ==
    IF S = {} THEN <<>>
    ELSE LET least == CHOOSE x \in S : \A y \in S \ {x} : StrLess(x, y)
         IN  <<least>> \o Sorted(S \ {least})

\* sep.join(list)
RECURSIVE Join(_, _)
Join(sep, list) ==
    IF list = <<>> THEN <<>>
    ELSE IF Len(list) = 1 THEN list[1]
    ELSE list[1] \o sep \o Join(sep, Tail(list))

Range(f) == {f[i] : i \in DOMAIN f}

\* ------------------------------------------------------------------------
\* Pure functions of pst_parser.py
\* ------------------------------------------------------------------------

\* faulty variant: the addresses are not lower-cased
extract_emails_keepcase(text) ==
    IF text = NULL THEN {} ELSE Range(text)

\* extract_emails(text): the header text is given as the list of the
\* substrings the address pattern matches; the result is the set of them,
\* lower-cased.  None / no header gives the empty list.
extract_emails(text) ==
    IF text = NULL THEN {} ELSE {Lower(e) : e \in Range(text)}

\* index of the last "@" of a string, 0 when there is none
LastAt(email) ==
    IF \E i \in 1..Len(email) : email[i] = "@"
    THEN CHOOSE i \in 1..Len(email) :
            email[i] = "@" /\ \A j \in (i + 1)..Len(email) : email[j] # "@"
    ELSE 0

\* extract_domain(email)
extract_domain(email) ==
    IF email = NULL \/ email = <<>> \/ LastAt(email) = 0 THEN NULL
    ELSE Lower(Drop(email, LastAt(email)))

\* domain.split(".")[0]
FirstLabel(domain) ==
    IF \E i \in 1..Len(domain) : domain[i] = "."
    THEN SubSeq(domain, 1, (CHOOSE i \in 1..Len(domain) :
                    domain[i] = "." /\ \A j \in 1..(i - 1) : domain[j] # ".") - 1)
    ELSE domain

SnippetLen == 200
BodyCap == 50000

\* hashlib digests are taken to be injective: the digest of a string is the
\* string tagged with the algorithm.
Sha256(raw) == <<"sha256", raw>>
Sha1(raw) == <<"sha1", raw>>

\* faulty variant: the subject is left out of the hashed string
generate_dedupe_hash_nosubject(sender, recipients_str, subject, sent_time_iso, body_text) ==
    LET body_snippet == IF body_text # <<>> THEN Prefix(body_text, SnippetLen) ELSE <<>>
        raw == sender \o <<"|">> \o recipients_str \o <<"|">>
               \o sent_time_iso \o <<"|">> \o body_snippet
    IN  Sha256(raw)

\* generate_dedupe_hash(sender, recipients_str, subject, sent_time_iso, body_text)
generate_dedupe_hash(sender, recipients_str, subject, sent_time_iso, body_text) ==
    LET body_snippet == IF body_text # <<>> THEN Prefix(body_text, SnippetLen) ELSE <<>>
        raw == sender \o <<"|">> \o recipients_str \o <<"|">> \o subject \o <<"|">>
               \o sent_time_iso \o <<"|">> \o body_snippet
    IN  Sha256(raw)

\* length of the match of  ^(re|fwd|fw|\[.*?\]):  at the start of s
\* (IGNORECASE), 0 when the pattern does not match
MarkerLen(s) ==
    LET l == Lower(s)
        closes == {k \in 2..(Len(s) - 1) :
                     /\ s[k] = "]"
                     /\ s[k + 1] = ":"
                     /\ \A j \in 2..(k - 1) : s[j] # "\n"}
    IN  IF StartsWith(l, <<"r","e",":">>) THEN 3
        ELSE IF StartsWith(l, <<"f","w","d",":">>) THEN 4
        ELSE IF StartsWith(l, <<"f","w",":">>) THEN 3
        ELSE IF s # <<>> /\ s[1] = "[" /\ closes # {}
             THEN (CHOOSE k \in closes : \A k2 \in closes : k <= k2) + 1
        ELSE 0

\* faulty variant: no marker is removed
StripNothing(subject) == subject

\* faulty variant: the substitution is repeated until no marker is left
RECURSIVE StripMarkerAll(_)
StripMarkerAll(subject) ==
    IF MarkerLen(subject) = 0 THEN subject
    ELSE StripMarkerAll(LStrip(Drop(subject, MarkerLen(subject))))

\* re.sub(r'^(re|fwd|fw|\[.*?\]):\s*', '', subject, flags=re.IGNORECASE)
StripMarker(subject) ==
    IF MarkerLen(subject) = 0 THEN subject
    ELSE LStrip(Drop(subject, MarkerLen(subject)))

UnknownThread == <<"unknown">>

\* generate_thread_id(subject)
generate_thread_id(subject) ==
    IF subject = NULL \/ subject = <<>> THEN UnknownThread
    ELSE Sha1(Lower(Strip(StripMarker(subject))))

\* ------------------------------------------------------------------------
\* Timestamps (section 3 of _process_message)
\* ------------------------------------------------------------------------
\* A delivery time is None or <<t, kind>>: kind "aware" is a datetime with a
\* time zone, "naive" one without, "bad" a naive one for which astimezone()
\* raises (a time outside the platform's range).
Digits == <<"1", "2", "3">>
UtcSuffix == <<"+","0","0",":","0","0">>

\* delivery_time.isoformat()
isoformat(dt) ==
    <<Digits[dt[1]]>> \o (IF dt[2] = "aware" THEN UtcSuffix ELSE <<>>)

\* delivery_time.astimezone(timezone.utc).isoformat(), with the fallback
\* of the bare except
sent_at_of(delivery_time) ==
    IF delivery_time # NULL
    THEN IF delivery_time[2] # "bad"
         THEN isoformat(<<delivery_time[1], "aware">>)
         ELSE isoformat(delivery_time)
    ELSE NULL

\* faulty variant: the flag is not set in the else branch
timestamp_missing_unset(delivery_time) == FALSE

timestamp_missing_of(delivery_time) ==
    IF delivery_time # NULL THEN FALSE ELSE TRUE

\* ------------------------------------------------------------------------
\* Input: archives (what the pypff accessors return)
\* ------------------------------------------------------------------------
OrgSuffix == <<"@","f","u","t","u","r","e","e","l","e","c","t","r","o","n","i","c","s",".","c","o","m">>
AddrBuyer == <<"b","u","y","e","r","@","n","i","s","s","a","n",".","c","o","m">>
AddrSales == <<"S","a","l","e","s","@","N","i","s","s","a","n",".","c","o","m">>
AddrOps == <<"o","p","s","@","a","c","m","e",".","i","o">>
AddrAlice == <<"a","l","i","c","e","@","f","u","t","u","r","e","e","l","e","c","t","r","o","n","i","c","s",".","c","o","m">>
SubjQuote == <<"Q","u","o","t","e">>
SubjReQuote == <<"R","e",":"," ","Q","u","o","t","e">>
NameBuyer == <<"A","n","n">>
NameSales == <<"S","a","l">>
BodyA == <<"n","e","e","d"," ","l","c","d">>
BodyB == <<"o","k">>

\* A message: the values of message.subject, the From / To / Cc transport
\* headers (None or the list of addresses in the header), sender_name,
\* plain_text_body, html_body (already decoded, None when absent),
\* get_delivery_time(), and the accessor that raises, if any:
\* "extract" (a field accessor of sections 1-3) or "attach"
\* (number_of_attachments, section 5).
Msg(subject, from, to, cc, name, plain, html, delivery, fail) ==
    [subject |-> subject, header_from |-> from, header_to |-> to,
     header_cc |-> cc, sender_name |-> name, plain_text_body |-> plain,
     html_body |-> html, delivery |-> delivery, fail |-> fail]

MsgPool == <<
    \* external sender, one external domain
    Msg(SubjQuote, <<AddrBuyer>>, <<AddrAlice>>, NULL, NameBuyer, BodyA, NULL,
        <<1, "aware">>, "none"),
    \* a second sender of the same domain, reply in the same thread
    Msg(SubjReQuote, <<AddrSales>>, <<AddrAlice>>, NULL, NameSales, BodyB, NULL,
        <<2, "naive">>, "none"),
    \* internal sender, two external domains, undated
    Msg(SubjQuote, <<AddrAlice>>, <<AddrOps, AddrBuyer>>, NULL, NULL, NULL, BodyB,
        NULL, "none"),
    \* external sender and a recipient of another external domain
    Msg(SubjReQuote, <<AddrBuyer>>, <<AddrOps>>, <<AddrAlice>>, NameBuyer, BodyA, NULL,
        <<3, "bad">>, "none"),
    \* a corrupt message: a field accessor raises
    Msg(NULL, NULL, NULL, NULL, NULL, NULL, NULL, NULL, "extract"),
    \* the attachment count raises, after entity resolution
    Msg(NULL, <<AddrOps>>, NULL, NULL, NULL, NULL, NULL, NULL, "attach"),
    \* internal sender and recipient: no external participant
    Msg(SubjQuote, <<AddrAlice>>, <<AddrAlice>>, NULL, NULL, BodyB, NULL,
        <<2, "aware">>, "none")
>>

\* messages whose body is longer than the cap of the stored body, exactly
\* as long, and one character shorter
BodyOver == [i \in 1..(BodyCap + 1) |-> "a"]
BodyAtCap == [i \in 1..BodyCap |-> "b"]
BodyUnder == [i \in 1..(BodyCap - 1) |-> "c"]

LongPool == <<
    Msg(SubjQuote, <<AddrBuyer>>, <<AddrAlice>>, NULL, NameBuyer, BodyOver, NULL,
        <<1, "aware">>, "none"),
    Msg(SubjQuote, <<AddrBuyer>>, <<AddrAlice>>, NULL, NameBuyer, BodyAtCap, NULL,
        <<1, "aware">>, "none"),
    \* the body comes from the HTML part
    Msg(SubjQuote, <<AddrBuyer>>, <<AddrAlice>>, NULL, NameBuyer, NULL, BodyOver \o BodyA,
        <<1, "aware">>, "none"),
    Msg(SubjQuote, <<AddrBuyer>>, <<AddrAlice>>, NULL, NameBuyer, BodyUnder, NULL,
        <<1, "aware">>, "none")
>>

\* a message sent by the user of the dashboard (an outgoing message for the
\* enrichment)
AddrAdam == <<"A","d","a","m",".","L","a","r","k","i","n">> \o OrgSuffix
OutPool == <<
    Msg(SubjReQuote, <<AddrAdam>>, <<AddrBuyer>>, NULL, NULL, BodyB, NULL,
        <<3, "aware">>, "none")
>>

AllPool == MsgPool \o LongPool \o OutPool

\* a folder lists its messages by handle (index into AllPool)
Handles == 1..Len(MsgPool)
LongHandles == (Len(MsgPool) + 1)..(Len(MsgPool) + Len(LongPool))
OutHandles == (Len(MsgPool) + Len(LongPool) + 1)..Len(AllPool)

RECURSIVE SeqsUpTo(_, _)
SeqsUpTo(S, n) ==
    IF n = 0 THEN {<<>>}
    ELSE LET shorter == SeqsUpTo(S, n - 1)
         IN  shorter \cup {Append(s, x) : s \in {q \in shorter : Len(q) = n - 1}, x \in S}

Folder(name, msgs, subs) == [name |-> name, sub_messages |-> msgs, sub_folders |-> subs]

NameRoot == <<"R","o","o","t">>
NameInbox == <<"I","n","b","o","x">>
NameProjects == <<"P","r","o","j","e","c","t","s">>
NameSent == <<"S","e","n","t">>

\* all messages in the root folder
FlatArchive(ms) == Folder(NameRoot, ms, <<>>)

\* Root / Inbox (1st message) / Projects (3rd and later), Root / Sent (2nd)
NestedArchive(ms) ==
    Folder(NameRoot, <<>>,
        << Folder(NameInbox, Prefix(ms, 1),
                << Folder(NameProjects, Drop(ms, 2), <<>>) >>),
           Folder(NameSent, SubSeq(ms, 2, IF Len(ms) < 2 THEN 1 ELSE 2), <<>>) >>)

MsgSeqs == SeqsUpTo(Handles, MaxMsgs)

\* Root (a) / Inbox (b) / Projects (c), Root / Sent (d): every folder has
\* messages of its own
TreeArchive(a, b, c, d) ==
    Folder(NameRoot, a,
        << Folder(NameInbox, b, << Folder(NameProjects, c, <<>>) >>),
           Folder(NameSent, d, <<>>) >>)

\* two sound messages and the corrupt one
TreeHandles == {1, 2, 5}
TreeArchives ==
    {<<TreeArchive(a, b, c, d)>> : a, b, c, d \in SeqsUpTo(TreeHandles, MaxFolderMsgs)}

\* An archive is the result of get_root_folder(): <<root>>, or <<>> for None
ArchivesOf(seqs) == {<<FlatArchive(ms)>> : ms \in seqs}
                    \cup {<<NestedArchive(ms)>> : ms \in seqs}
                    \cup {<<>>}

Archives == ArchivesOf(MsgSeqs)

\* the archives of the behaviours with several runs: a later run takes the
\* same archive again or one of SecondArchives
ReArchives == ArchivesOf(SeqsUpTo(Handles, MaxReMsgs))
SecondArchives == {<<FlatArchive(ms)>> : ms \in SeqsUpTo(Handles, 1)}

RECURSIVE CountMessages(_)
CountMessages(folder) ==
    LET RECURSIVE Sum(_)
        Sum(k) == IF k = 0 THEN 0
                  ELSE CountMessages(folder.sub_folders[k]) + Sum(k - 1)
    IN  Len(folder.sub_messages) + Sum(Len(folder.sub_folders))

TotalMessages(a) == IF a = <<>> THEN 0 ELSE CountMessages(a[1])

\* ------------------------------------------------------------------------
\* State
\* ------------------------------------------------------------------------
VARIABLES
    archive,        \* the archive the parser was opened on
    supabase,       \* TRUE when the parser has a storage client
    batch_size,
    import_id,
    pc,             \* "idle", "parsing" (inside parse()), "done" (parse() returned),
                    \* "raised" (an exception left parse())
    stack,          \* call stack of _parse_folder
    stats,          \* self.stats
    batch,          \* self.batch
    companies, contacts, email_threads, emails,     \* storage tables
    \* history of the run, for stating the properties
    run,            \* number of parser instances created so far
    appended,       \* records appended to the batch in this run, in order
    flushLog,       \* the upserts submitted to storage in this run
    lastMsg,        \* what happened to the message processed last
    everHashes,     \* the dedupe hashes of the records appended in any run
    nfaults,        \* storage calls that have failed so far
    faultLimit,     \* storage calls the environment may fail in this behaviour
    runLimit,       \* runs made in this behaviour
    snap,           \* the tables and the archive at the end of the first run
    inst,           \* the pipeline instances that run concurrently on the
                    \* same storage (none in the behaviours of one parser)
    calc,           \* a call of the identity functions on its own: the
                    \* arguments and, once applied, the results
    enrich,         \* the enrichment collaborator: its tables (email_insights,
                    \* parts_recommended, tasks) and its runs
    page            \* the import page: the imports table and the position of
                    \* its handler

tables == <<companies, contacts, email_threads, emails>>
parser == <<archive, supabase, batch_size, import_id, pc, stack, stats, batch>>
history == <<run, appended, everHashes, flushLog, lastMsg, nfaults, faultLimit,
            runLimit, snap>>
vars == <<parser, tables, history, inst, calc, enrich, page>>

NoMsg == [kind |-> "none"]

\* ------------------------------------------------------------------------
\* _process_message, section 4.5: the external participants
\* ------------------------------------------------------------------------
\* external_emails: the participants that are not None and do not end with
\* the organisation's suffix
external_emails_of(sender_email, to_emails, cc_emails) ==
    LET all_participants == {sender_email} \cup to_emails \cup cc_emails
    IN  {e \in all_participants : e # NULL /\ ~EndsWith(e, OrgSuffix)}

\* external_emails[0]: all_participants is list(set(...)), so its order is
\* the iteration order of a set of strings, which is not specified: any
\* external address can come first
PrimaryCandidates(external_emails) == external_emails

\* ------------------------------------------------------------------------
\* _process_message, sections 1-4 and 6: the fields of the record
\* ------------------------------------------------------------------------
body_text_of(m) ==
    IF clean_text(m.plain_text_body) # <<>> THEN clean_text(m.plain_text_body)
    ELSE IF m.html_body # NULL THEN m.html_body ELSE <<>>

\* sender_emails[0] if sender_emails else None (headers with one From address)
sender_email_of(m) ==
    LET sender_emails == extract_emails(m.header_from)
    IN  IF sender_emails # {} THEN CHOOSE e \in sender_emails : TRUE ELSE NULL

\* faulty variant: an undated message is hashed with an empty time
sent_at_or_empty(sent_at) == IF sent_at # NULL THEN sent_at ELSE <<>>

\* sent_at or "missing"
sent_at_or_missing(sent_at) ==
    IF sent_at # NULL THEN sent_at ELSE <<"m","i","s","s","i","n","g">>

content_hash_of(m) ==
    generate_dedupe_hash(
        IF sender_email_of(m) # NULL THEN sender_email_of(m)
        ELSE <<"u","n","k","n","o","w","n">>,
        Join(<<",">>, Sorted(extract_emails(m.header_to))),
        clean_text(m.subject),
        sent_at_or_missing(sent_at_of(m.delivery)),
        body_text_of(m))

\* Sections 1-4 of _process_message for message m: the extracted fields
ExtractFields(m) ==
    [subject |-> clean_text(m.subject),
     body_text |-> body_text_of(m),
     sender_email |-> sender_email_of(m),
     sender_name |-> clean_text(m.sender_name),
     to_emails |-> extract_emails(m.header_to),
     cc_emails |-> extract_emails(m.header_cc),
     sent_at |-> sent_at_of(m.delivery),
     timestamp_missing |-> timestamp_missing_of(m.delivery),
     content_hash |-> content_hash_of(m),
     thread_id |-> generate_thread_id(clean_text(m.subject)),
     external_emails |-> external_emails_of(sender_email_of(m),
                             extract_emails(m.header_to), extract_emails(m.header_cc)),
     fail |-> m.fail]

\* the extracted fields of every message of the pool, by handle
RECURSIVE ExtractAll(_)
ExtractAll(n) ==
    IF n = 0 THEN <<>> ELSE Append(ExtractAll(n - 1), ExtractFields(AllPool[n]))

Extracted == ExtractAll(Len(AllPool))

\* faulty variant: the body is stored whole
email_record_nocap(x, folder_path, related_company_id) ==
    [import_id |-> import_id,
     dedupe_hash |-> x.content_hash,
     thread_id |-> x.thread_id,
     subject |-> x.subject,
     body |-> x.body_text,
     from_name |-> x.sender_name,
     sender_email |-> x.sender_email,
     recipient_emails |-> x.to_emails,
     cc_emails |-> x.cc_emails,
     sent_at |-> x.sent_at,
     timestamp_missing |-> x.timestamp_missing,
     folder_path |-> folder_path,
     processed_by_ai |-> FALSE,
     related_company_id |-> related_company_id]

\* email_record (the header-derived message id, references, attachments and
\* raw headers are carried along unchanged and left out)
email_record(x, folder_path, related_company_id) ==
    [import_id |-> import_id,
     dedupe_hash |-> x.content_hash,
     thread_id |-> x.thread_id,
     subject |-> x.subject,
     body |-> Prefix(x.body_text, BodyCap),
     from_name |-> x.sender_name,
     sender_email |-> x.sender_email,
     recipient_emails |-> x.to_emails,
     cc_emails |-> x.cc_emails,
     sent_at |-> x.sent_at,
     timestamp_missing |-> x.timestamp_missing,
     folder_path |-> folder_path,
     processed_by_ai |-> FALSE,
     related_company_id |-> related_company_id]

\* Tables of extract_domain and of the default company name over the
\* addresses of the pool, so that they are computed once
PoolAddresses == UNION {Extracted[h].external_emails : h \in DOMAIN Extracted}
DomainTable == {<<e, extract_domain(e)>> : e \in PoolAddresses \cup {NULL}}
DomainOf(e) == (CHOOSE p \in DomainTable : p[1] = e)[2]

\* comp_name = domain.split(".")[0].capitalize()
comp_name_of(domain) == Capitalize(FirstLabel(domain))
NameTable == {<<p[2], comp_name_of(p[2])>> : p \in {q \in DomainTable : q[2] # NULL}}
NameOf(domain) == (CHOOSE p \in NameTable : p[1] = domain)[2]

\* ------------------------------------------------------------------------
\* Storage calls (supabase client)
\* ------------------------------------------------------------------------
Id(n) == <<"id", n>>

\* faulty variant: the lookup filters on a column that never matches
SelectCompaniesNone(tbl, domain) == {}

\* table("companies").select("id").eq("domain", domain)
SelectCompanies(tbl, domain) == {c \in tbl : c.domain = domain}

\* comp_resp.data[0]: the row stored first
FirstRow(rows) == CHOOSE r \in rows : \A r2 \in rows : r.id[2] <= r2.id[2]

\* table("companies").insert({name, domain, type}): storage generates the id
NewCompanyRow(tbl, domain) ==
    [id |-> Id(Cardinality(tbl) + 1),
     name |-> NameOf(domain),
     domain |-> domain,
     type |-> "Unclassified"]

InsertCompany(tbl, domain) == tbl \cup {NewCompanyRow(tbl, domain)}

\* faulty variant: a plain insert of the contact row
InsertContact(tbl, row) == tbl \cup {row}

\* table("contacts").upsert(row, on_conflict="email")
UpsertContact(tbl, row) == {c \in tbl : c.email # row.email} \cup {row}

\* table("email_threads").upsert(row, on_conflict="id")
UpsertThread(tbl, row) == {th \in tbl : th.id # row.id} \cup {row}

\* faulty variant: a plain insert: no conflict target
UpsertPlainInsert(tbl, recs) == tbl \cup Range(recs)

\* faulty variant: resolution=merge-duplicates: the stored row is overwritten
RECURSIVE UpsertMergeDuplicates(_, _)
UpsertMergeDuplicates(tbl, recs) ==
    IF recs = <<>> THEN tbl
    ELSE UpsertMergeDuplicates(
            {e \in tbl : e.dedupe_hash # Head(recs).dedupe_hash} \cup {Head(recs)},
            Tail(recs))

\* table("emails").upsert(batch, on_conflict="dedupe_hash", ignore_duplicates=True):
\* a record whose dedupe_hash is already stored (or was inserted earlier in
\* the same statement) is skipped
RECURSIVE UpsertIgnoreDuplicates(_, _)
UpsertIgnoreDuplicates(tbl, recs) ==
    IF recs = <<>> THEN tbl
    ELSE LET r == Head(recs)
             next == IF \E e \in tbl : e.dedupe_hash = r.dedupe_hash
                     THEN tbl ELSE tbl \cup {r}
         IN  UpsertIgnoreDuplicates(next, Tail(recs))

\* ------------------------------------------------------------------------
\* _process_message, section 4.5: entity linking
\* ------------------------------------------------------------------------
\* The storage calls entity linking makes for a message when none of them
\* raises: these are the calls that can fail
EntityCalls(sender_email, external_emails, domain) ==
    IF ~supabase \/ external_emails = {} \/ domain = NULL THEN {}
    ELSE {"lookup", "thread"}
         \cup (IF SelectCompanies(companies, domain) = {}
               THEN {"insert"} ELSE {})
         \cup (IF sender_email # NULL /\ sender_email \in external_emails
               THEN {"contact"} ELSE {})

\* The storage calls of entity linking for one message.  domain is
\* extract_domain(external_emails[0]); fault names the storage call that
\* raises.  The result
\* gives the tables afterwards, related_company_id, and outcome: "skipped"
\* (no storage call made), "ok", or the call that raised.
ResolveEntities(sender_email, sender_name, external_emails, domain, thread_id, subject, sent_at, fault) ==
    LET found == SelectCompanies(companies, domain)
        RaiseAt(call, cid, comps) ==
            [companies |-> comps, contacts |-> contacts,
             email_threads |-> email_threads,
             related_company_id |-> cid, outcome |-> call, domain |-> domain]
        comps1 == IF found # {} THEN companies ELSE InsertCompany(companies, domain)
        cid == IF found # {} THEN FirstRow(found).id
               ELSE NewCompanyRow(companies, domain).id
        withContact == sender_email # NULL /\ sender_email \in external_emails
        conts1 == IF withContact
                  THEN UpsertContact(contacts,
                          [email |-> sender_email, company_id |-> cid,
                           full_name |-> sender_name])
                  ELSE contacts
        threads1 == UpsertThread(email_threads,
                        [id |-> thread_id, subject |-> subject,
                         related_company_id |-> cid, last_message_at |-> sent_at])
    IN  IF ~supabase \/ external_emails = {} \/ domain = NULL
        THEN RaiseAt("skipped", NULL, companies)
        ELSE IF fault = "lookup" THEN RaiseAt("lookup", NULL, companies)
        ELSE IF fault = "insert" /\ found = {} THEN RaiseAt("insert", NULL, companies)
        ELSE IF fault = "contact" /\ withContact THEN RaiseAt("contact", cid, comps1)
        ELSE IF fault = "thread"
             THEN [companies |-> comps1, contacts |-> conts1,
                   email_threads |-> email_threads,
                   related_company_id |-> cid, outcome |-> "thread", domain |-> domain]
        ELSE [companies |-> comps1, contacts |-> conts1, email_threads |-> threads1,
              related_company_id |-> cid, outcome |-> "ok", domain |-> domain]

\* ------------------------------------------------------------------------
\* _flush_batch
\* ------------------------------------------------------------------------
\* faulty variant: a failed batch is kept in the buffer, to be sent again
flush_batch_keep(b, em, fails) ==
    IF b = <<>> \/ ~supabase
    THEN [batch |-> b, emails |-> em, submitted |-> <<>>, raised |-> FALSE]
    ELSE [batch |-> IF fails THEN b ELSE <<>>,
          emails |-> IF fails THEN em ELSE UpsertIgnoreDuplicates(em, b),
          submitted |-> << [recs |-> b, ok |-> ~fails] >>,
          raised |-> FALSE]

\* faulty variant: the upsert is not inside a try: its error leaves _flush_batch
flush_batch_nocatch(b, em, fails) ==
    IF b = <<>> \/ ~supabase
    THEN [batch |-> b, emails |-> em, submitted |-> <<>>, raised |-> FALSE]
    ELSE [batch |-> IF fails THEN b ELSE <<>>,
          emails |-> IF fails THEN em ELSE UpsertIgnoreDuplicates(em, b),
          submitted |-> << [recs |-> b, ok |-> ~fails] >>,
          raised |-> fails]

\* The state after _flush_batch() on buffer b and table em; fails says
\* whether the upsert raises.  submitted is the list of upserts sent (none
\* or one); raised says whether an exception leaves _flush_batch (never:
\* the except clause catches it).
flush_batch(b, em, fails) ==
    IF b = <<>> \/ ~supabase
    THEN [batch |-> b, emails |-> em, submitted |-> <<>>, raised |-> FALSE]
    ELSE [batch |-> <<>>,
          emails |-> IF fails THEN em ELSE UpsertIgnoreDuplicates(em, b),
          submitted |-> << [recs |-> b, ok |-> ~fails] >>,
          raised |-> FALSE]

Faulted(fl) == IF fl.submitted # <<>> /\ ~fl.submitted[1].ok THEN 1 ELSE 0

\* faulty variant: parse() returns without the final flush
final_flush_missing(b, em, fails) ==
    [batch |-> b, emails |-> em, submitted |-> <<>>, raised |-> FALSE]

\* parse(): the _flush_batch() after the traversal
final_flush(b, em, fails) == flush_batch(b, em, fails)

\* ------------------------------------------------------------------------
\* _parse_folder: the loop over the messages of a folder
\* ------------------------------------------------------------------------
\* the except clause: the error is counted
CountError(st) == [st EXCEPT !.errors = @ + 1]

\* faulty variant: the try is around the loop: an error ends the folder's messages
NextMessageAbort(fr, raised) ==
    IF raised THEN [fr EXCEPT !.i = Len(fr.folder.sub_messages) + 1]
    ELSE [fr EXCEPT !.i = @ + 1]

\* the loop goes on to the next message, whether _process_message raised
\* or not
NextMessage(fr, raised) == [fr EXCEPT !.i = @ + 1]

\* ------------------------------------------------------------------------
\* Operations
\* ------------------------------------------------------------------------
Frame(folder, path_str) == [folder |-> folder, path_str |-> path_str, i |-> 1, j |-> 1]

Top == stack[Len(stack)]
SetTop(fr) == [stack EXCEPT ![Len(stack)] = fr]

BatchSizes == 1..MaxBatch

\* a parser not yet started, whatever storage holds
InitIdle(archs, clients, faults, runs) ==
    /\ archive \in archs
    /\ supabase \in clients
    /\ faultLimit = faults
    /\ runLimit = runs
    /\ batch_size \in BatchSizes
    /\ import_id = NULL
    /\ pc = "idle"
    /\ stack = <<>>
    /\ stats = [processed |-> 0, errors |-> 0]
    /\ batch = <<>>
    /\ run = 0
    /\ appended = <<>>
    /\ everHashes = {}
    /\ flushLog = <<>>
    /\ lastMsg = NoMsg
    /\ nfaults = 0
    /\ snap = <<>>

\* storage is empty
InitParser(archs, clients, faults, runs) ==
    /\ InitIdle(archs, clients, faults, runs)
    /\ companies = {} /\ contacts = {} /\ email_threads = {} /\ emails = {}

NoCalc == [kind |-> "none"]

\* the tables and the runs of the enrichment collaborator (none in the
\* behaviours of the pipeline alone)
NoEnrich == [email_insights |-> {}, parts_recommended |-> {}, tasks |-> <<>>,
             faults |-> 0, w |-> <<>>]

\* the import page before the button is pressed: no imports row
PageIdle == [step |-> "idle", imports |-> <<>>]

InitWith(archs, clients, faults, runs) ==
    InitParser(archs, clients, faults, runs) /\ inst = <<>> /\ calc = NoCalc
        /\ enrich = NoEnrich /\ page = PageIdle

\* one run, in which storage calls may fail
InitFaults == InitWith(Archives, BOOLEAN, MaxFaults, 1)

\* several runs over the same or overlapping archives, storage available
InitReingest == InitWith(ReArchives, BOOLEAN, 0, MaxRuns)

\* one run over messages with long bodies and a short one, storage available
BodyHandles == LongHandles \cup {1}
InitBodies == InitWith(ArchivesOf(SeqsUpTo(BodyHandles, MaxBodyMsgs)), BOOLEAN, 0, 1)

\* one run over a folder tree, storage available
InitTraversal == InitWith(TreeArchives, BOOLEAN, 0, 1)

Init == InitFaults \/ InitReingest

\* PSTParser(path, import_id), open(), and parse() up to the call of
\* _parse_folder(root, "Root"): every run uses a new parser instance
StartRun ==
    /\ pc \in {"idle", "done", "raised"}
    /\ run < runLimit
    /\ archive' \in (IF run = 0 THEN {archive} ELSE {archive} \cup SecondArchives)
    /\ run' = run + 1
    /\ import_id' = <<"import", run + 1>>
    /\ stats' = [processed |-> 0, errors |-> 0]
    /\ batch' = <<>>
    /\ stack' = IF archive' # <<>> THEN <<Frame(archive'[1], NameRoot)>> ELSE <<>>
    /\ pc' = "parsing"
    /\ appended' = <<>>
    /\ flushLog' = <<>>
    /\ lastMsg' = NoMsg
    /\ UNCHANGED <<supabase, batch_size, tables, everHashes, nfaults, faultLimit,
                   runLimit, snap, inst, calc, enrich, page>>

\* one iteration of  for message in folder.sub_messages  with its try/except,
\* including the flush _process_message makes when the batch is full
ProcessMessage ==
    /\ pc = "parsing"
    /\ stack # <<>>
    /\ Top.i <= Len(Top.folder.sub_messages)
    /\ \E x \in {Extracted[Top.folder.sub_messages[Top.i]]} :
       /\ stack' = SetTop(NextMessage(Top, x.fail # "none"))
       /\ IF x.fail = "extract"
          THEN /\ stats' = CountError(stats)
               /\ lastMsg' = [kind |-> "error"]
               /\ UNCHANGED <<batch, tables, appended, everHashes, flushLog, nfaults>>
          ELSE \E primary \in (IF x.external_emails = {} THEN {NULL}
                                ELSE PrimaryCandidates(x.external_emails)) :
               \E domain \in {DomainOf(primary)} :
               \E fault \in {"none"} \cup
                            (IF nfaults < faultLimit
                             THEN EntityCalls(x.sender_email, x.external_emails, domain)
                             ELSE {}),
                  flushFails \in BOOLEAN :
               \E res \in {ResolveEntities(x.sender_email, x.sender_name,
                              x.external_emails, domain, x.thread_id, x.subject,
                              x.sent_at, fault)} :
               \E rec \in {email_record(x, Top.path_str, res.related_company_id)} :
               \E fl \in {IF Len(batch) + 1 >= batch_size /\ x.fail # "attach"
                           THEN flush_batch(Append(batch, rec), emails, flushFails)
                           ELSE [batch |-> Append(batch, rec), emails |-> emails,
                                 submitted |-> <<>>, raised |-> FALSE]} :
               LET f1 == IF res.outcome \in {"skipped", "ok"} THEN 0 ELSE 1
               IN
               \* the environment fails a call only if one is made and the
               \* behaviour's limit allows it
               /\ flushFails => fl.submitted # <<>> /\ nfaults + f1 < faultLimit
               /\ companies' = res.companies
               /\ contacts' = res.contacts
               /\ email_threads' = res.email_threads
               /\ IF x.fail = "attach"
                  THEN /\ stats' = CountError(stats)
                       /\ lastMsg' = [kind |-> "error"]
                       /\ nfaults' = nfaults + f1
                       /\ UNCHANGED <<batch, emails, appended, everHashes, flushLog>>
                  ELSE /\ stats' = IF fl.raised
                                 THEN CountError([stats EXCEPT !.processed = @ + 1])
                                 ELSE [stats EXCEPT !.processed = @ + 1]
                       /\ appended' = Append(appended, rec)
                       /\ everHashes' = everHashes \cup {rec.dedupe_hash}
                       /\ batch' = fl.batch
                       /\ emails' = fl.emails
                       /\ flushLog' = flushLog \o fl.submitted
                       /\ nfaults' = nfaults + f1 + Faulted(fl)
                       /\ lastMsg' = [kind |-> "buffered", outcome |-> res.outcome,
                                      domain |-> res.domain, record |-> rec]
    /\ UNCHANGED <<archive, supabase, batch_size, import_id, pc, run, faultLimit,
                   runLimit, snap, inst, calc, enrich, page>>

\* faulty variant: the loop over the subfolders does not wait for the loop
\* over the messages
DescendEarly ==
    /\ pc = "parsing"
    /\ stack # <<>>
    /\ Top.j <= Len(Top.folder.sub_folders)
    /\ LET sub_folder == Top.folder.sub_folders[Top.j]
           new_path == Top.path_str \o <<"/">> \o sub_folder.name
       IN  stack' = Append(SetTop([Top EXCEPT !.j = @ + 1]), Frame(sub_folder, new_path))
    /\ UNCHANGED <<archive, supabase, batch_size, import_id, pc, stats, batch,
                   tables, history, inst, calc, enrich, page>>

\* for sub_folder in folder.sub_folders: the recursive call
Descend ==
    /\ pc = "parsing"
    /\ stack # <<>>
    /\ Top.i > Len(Top.folder.sub_messages)
    /\ Top.j <= Len(Top.folder.sub_folders)
    /\ LET sub_folder == Top.folder.sub_folders[Top.j]
           new_path == Top.path_str \o <<"/">> \o sub_folder.name
       IN  stack' = Append(SetTop([Top EXCEPT !.j = @ + 1]), Frame(sub_folder, new_path))
    /\ UNCHANGED <<archive, supabase, batch_size, import_id, pc, stats, batch,
                   tables, history, inst, calc, enrich, page>>

\* _parse_folder returns
Return ==
    /\ pc = "parsing"
    /\ stack # <<>>
    /\ Top.i > Len(Top.folder.sub_messages)
    /\ Top.j > Len(Top.folder.sub_folders)
    /\ stack' = SubSeq(stack, 1, Len(stack) - 1)
    /\ UNCHANGED <<archive, supabase, batch_size, import_id, pc, stats, batch,
                   tables, history, inst, calc, enrich, page>>

\* the end of parse(): the final _flush_batch() and return self.stats
Finish ==
    /\ pc = "parsing"
    /\ stack = <<>>
    /\ \E flushFails \in BOOLEAN :
         LET fl == final_flush(batch, emails, flushFails)
         IN  /\ flushFails => fl.submitted # <<>> /\ nfaults < faultLimit
             /\ batch' = fl.batch
             /\ emails' = fl.emails
             /\ flushLog' = flushLog \o fl.submitted
             /\ nfaults' = nfaults + Faulted(fl)
             /\ snap' = IF run = 1
                        THEN <<archive, companies, contacts, email_threads, fl.emails>>
                        ELSE snap
             /\ pc' = IF fl.raised THEN "raised" ELSE "done"
    /\ UNCHANGED <<archive, supabase, batch_size, import_id, stack, stats,
                   companies, contacts, email_threads, run, appended, everHashes,
                   lastMsg, faultLimit, runLimit, inst, calc, enrich, page>>

Next == StartRun \/ ProcessMessage \/ Descend \/ Return \/ Finish

\* The process is killed inside parse(): between two messages or folders,
\* or inside _process_message at one of the storage calls of entity
\* linking (call says which; the calls before it have been made), or
\* between the last of them and the flush.  The buffer is lost with the
\* process; what storage holds stays.
Abort ==
    /\ pc = "parsing"
    /\ run < runLimit
    /\ \/ UNCHANGED <<companies, contacts, email_threads>>
       \/ /\ stack # <<>>
          /\ Top.i <= Len(Top.folder.sub_messages)
          /\ \E x \in {Extracted[Top.folder.sub_messages[Top.i]]} :
             \E primary \in (IF x.external_emails = {} THEN {NULL}
                              ELSE PrimaryCandidates(x.external_emails)) :
             \E domain \in {DomainOf(primary)} :
             \E call \in EntityCalls(x.sender_email, x.external_emails, domain) \cup {"none"} :
             \E res \in {ResolveEntities(x.sender_email, x.sender_name,
                            x.external_emails, domain, x.thread_id, x.subject,
                            x.sent_at, call)} :
                /\ x.fail # "extract"
                /\ companies' = res.companies
                /\ contacts' = res.contacts
                /\ email_threads' = res.email_threads
    /\ pc' = "aborted"
    /\ stack' = <<>>
    /\ batch' = <<>>
    /\ snap' = <<archive, companies', contacts', email_threads', emails, "aborted">>
    /\ UNCHANGED <<archive, supabase, batch_size, import_id, stats, emails, run,
                   appended, everHashes, flushLog, lastMsg, nfaults, faultLimit,
                   runLimit, inst, calc, enrich, page>>

\* ingestion is run again over the same archive: a new parser, a new import
Resume ==
    /\ pc = "aborted"
    /\ run < runLimit
    /\ run' = run + 1
    /\ import_id' = <<"import", run + 1>>
    /\ stats' = [processed |-> 0, errors |-> 0]
    /\ batch' = <<>>
    /\ stack' = IF archive # <<>> THEN <<Frame(archive[1], NameRoot)>> ELSE <<>>
    /\ pc' = "parsing"
    /\ appended' = <<>>
    /\ flushLog' = <<>>
    /\ lastMsg' = NoMsg
    /\ UNCHANGED <<archive, supabase, batch_size, tables, everHashes, nfaults,
                   faultLimit, runLimit, snap, inst, calc, enrich, page>>

NextResume == Next \/ Abort \/ Resume

\* ------------------------------------------------------------------------
\* The import page: the handler of the "Process PST" button
\* ------------------------------------------------------------------------
\* the row of the import the handler is working on
CurrentImport == page.imports[Len(page.imports)]

\* the parser of the current import has been constructed and started
ParserOfImport == import_id = CurrentImport.id

\* the except clause of the handler: the error is shown, no row is written
PageFailed == [page EXCEPT !.step = "failed"]

\* table("imports").insert({"filename", "status": "processing"}): the
\* insert raises, or the row is stored and its id is taken
PageInsert ==
    /\ page.step \in {"idle", "finished", "failed"}
    /\ run < runLimit
    /\ \/ /\ nfaults < faultLimit
          /\ nfaults' = nfaults + 1
          /\ page' = PageFailed
       \/ /\ nfaults' = nfaults
          /\ page' = [step |-> "inserted",
                      imports |-> Append(page.imports,
                                    [id |-> <<"import", run + 1>>,
                                     status |-> "processing",
                                     emails_processed |-> NULL])]
    /\ UNCHANGED <<parser, tables, run, appended, everHashes, flushLog, lastMsg,
                   faultLimit, runLimit, snap, inst, calc, enrich>>

\* PSTParser(tmp_path, import_id=imp_id); parser.open() raises (the upload
\* is not an archive pypff can open)
PageOpenRaises ==
    /\ page.step = "inserted"
    /\ ~ParserOfImport
    /\ run' = run + 1
    /\ import_id' = CurrentImport.id
    /\ stats' = [processed |-> 0, errors |-> 0]
    /\ batch' = <<>>
    /\ stack' = <<>>
    /\ pc' = "idle"
    /\ appended' = <<>>
    /\ flushLog' = <<>>
    /\ lastMsg' = NoMsg
    /\ page' = PageFailed
    /\ UNCHANGED <<archive, supabase, batch_size, tables, everHashes, nfaults,
                   faultLimit, runLimit, snap, inst, calc, enrich>>

\* PSTParser(tmp_path, import_id=imp_id); parser.open(); parser.parse() is
\* called
PageParse ==
    /\ page.step = "inserted"
    /\ ~ParserOfImport
    /\ StartRun

\* an exception leaves parse(): get_root_folder(), the iteration over
\* sub_messages or sub_folders, or sub_folder.name raises, outside the try
\* of _parse_folder
ParseRaises ==
    /\ page.step = "inserted"
    /\ pc = "parsing"
    /\ pc' = "raised"
    /\ page' = PageFailed
    /\ UNCHANGED <<archive, supabase, batch_size, import_id, stack, stats, batch,
                   tables, history, inst, calc, enrich>>

\* parser.close(); table("imports").update({"status": "completed",
\* "emails_processed": stats['processed']}).eq("id", imp_id): the update
\* raises, or the row is written
PageUpdate ==
    /\ page.step = "inserted"
    /\ ParserOfImport
    /\ pc = "done"
    /\ \/ /\ nfaults < faultLimit
          /\ nfaults' = nfaults + 1
          /\ page' = PageFailed
       \/ /\ nfaults' = nfaults
          /\ page' = [step |-> "finished",
                      imports |-> [page.imports EXCEPT ![Len(page.imports)] =
                                    [@ EXCEPT !.status = "completed",
                                              !.emails_processed = stats.processed]]]
    /\ UNCHANGED <<parser, tables, run, appended, everHashes, flushLog, lastMsg,
                   faultLimit, runLimit, snap, inst, calc, enrich>>

\* the handler: the steps of parse() are those of the pipeline
HandlerStep ==
    \/ PageOpenRaises \/ PageParse \/ ParseRaises \/ PageUpdate
    \/ ProcessMessage \/ Descend \/ Return \/ Finish

NextImport == PageInsert \/ HandlerStep

\* imports of the same or overlapping archives, one after the other
ImportHandles == {1, 5}
InitImport ==
    InitWith(ArchivesOf(SeqsUpTo(ImportHandles, MaxImportMsgs)), {TRUE},
             MaxImportFaults, MaxRuns)

SpecImport == InitImport /\ [][NextImport]_vars

\* the handler is sequential code: once the button is pressed it keeps
\* taking steps until it returns
SpecImportFair == SpecImport /\ WF_vars(HandlerStep)

Spec == Init /\ [][Next]_vars
SpecFaults == InitFaults /\ [][Next]_vars
SpecReingest == InitReingest /\ [][Next]_vars
SpecBodies == InitBodies /\ [][Next]_vars
SpecResume == InitReingest /\ [][NextResume]_vars
SpecTraversal == InitTraversal /\ [][Next]_vars

\* parse() is sequential code: once called it keeps taking steps (every
\* storage call returns or raises)
RunStep == ProcessMessage \/ Descend \/ Return \/ Finish
SpecFaultsFair == InitFaults /\ [][Next]_vars /\ WF_vars(RunStep)

TypeOK ==
    /\ pc \in {"idle", "parsing", "done", "raised"}
    /\ stats.processed \in Nat /\ stats.errors \in Nat
    /\ run \in 0..MaxRuns
    /\ nfaults \in 0..MaxFaults

\* ------------------------------------------------------------------------
\* Properties

\* ------------------------------------------------------------------------
\* Two pipeline instances on the same storage.  Each storage call of
\* _process_message and _flush_batch is one step; the code between two
\* calls is local to the instance and belongs to the step of the call
\* that follows it.
\* ------------------------------------------------------------------------
Instances == {1, 2}

\* the messages of the concurrent archives: those with at most one external
\* domain, for which external_emails[0] does not depend on the set order
ConcHandles == {1, 2, 7}
ConcSeqs == SeqsUpTo(ConcHandles, MaxConcMsgs)

\* a parser after __init__ and open(), at the first message of its (flat)
\* archive; refused holds the domains whose insert storage refused
InstInit(ms) ==
    [msgs |-> ms, i |-> 1, step |-> IF ms = <<>> THEN "final" ELSE "lookup",
     domain |-> NULL, related_company_id |-> NULL, batch |-> <<>>,
     stats |-> [processed |-> 0, errors |-> 0], refused |-> {}]

InitConcurrent ==
    /\ InitParser({<<>>}, {TRUE}, 0, 0)
    /\ inst \in [Instances -> {InstInit(ms) : ms \in ConcSeqs}]
    /\ calc = NoCalc
    /\ enrich = NoEnrich
    /\ page = PageIdle

\* table("companies").insert(...) on a table with a unique index on domain:
\* the insert of a stored domain is refused and the call raises
InsertCompanyUnique(tbl, domain) ==
    IF SelectCompanies(tbl, domain) # {}
    THEN [raised |-> TRUE, tbl |-> tbl, id |-> NULL]
    ELSE [raised |-> FALSE, tbl |-> InsertCompany(tbl, domain),
          id |-> NewCompanyRow(tbl, domain).id]

Cur(p) == Extracted[inst[p].msgs[inst[p].i]]

\* if sender_email and sender_email in external_emails
WithContact(x) == x.sender_email # NULL /\ x.sender_email \in x.external_emails

AfterCompany(x) == IF WithContact(x) THEN "contact" ELSE "thread"

\* sections 1-4 and the company lookup
CLookup(p) ==
    /\ inst[p].step = "lookup"
    /\ \E x \in {Cur(p)} :
       \E primary \in (IF x.external_emails = {} THEN {NULL}
                       ELSE PrimaryCandidates(x.external_emails)) :
       \E domain \in {DomainOf(primary)} :
          IF x.external_emails = {} \/ domain = NULL
          THEN inst' = [inst EXCEPT ![p].step = "append", ![p].domain = NULL,
                                    ![p].related_company_id = NULL]
          ELSE \E found \in {SelectCompanies(companies, domain)} :
               IF found # {}
               THEN inst' = [inst EXCEPT ![p].step = AfterCompany(x),
                                         ![p].domain = domain,
                                         ![p].related_company_id = FirstRow(found).id]
               ELSE inst' = [inst EXCEPT ![p].step = "insert", ![p].domain = domain,
                                         ![p].related_company_id = NULL]
    /\ UNCHANGED <<parser, tables, history, calc, enrich, page>>

\* faulty variant: entity linking has no except clause: the error of the
\* insert reaches _parse_folder, which counts it and drops the message
InsertRaisedUncaught(p) ==
    [inst EXCEPT ![p].refused = @ \cup {inst[p].domain},
                 ![p].stats = CountError(@),
                 ![p].i = @ + 1,
                 ![p].step = IF inst[p].i + 1 > Len(inst[p].msgs)
                             THEN "final" ELSE "lookup"]

\* except Exception as entity_e: the message goes on to record
\* construction, with the related_company_id it had when the call raised
InsertRaised(p) ==
    [inst EXCEPT ![p].step = "append", ![p].refused = @ \cup {inst[p].domain}]

\* the company insert; when it raises, the except clause ends entity linking
CInsert(p) ==
    /\ inst[p].step = "insert"
    /\ \E r \in {InsertCompanyUnique(companies, inst[p].domain)} :
          /\ companies' = r.tbl
          /\ inst' = IF r.raised
                     THEN InsertRaised(p)
                     ELSE [inst EXCEPT ![p].step = AfterCompany(Cur(p)),
                                       ![p].related_company_id = r.id]
    /\ UNCHANGED <<parser, contacts, email_threads, emails, history, calc, enrich, page>>

\* the contact upsert
CContact(p) ==
    /\ inst[p].step = "contact"
    /\ \E x \in {Cur(p)} :
          contacts' = UpsertContact(contacts,
                          [email |-> x.sender_email,
                           company_id |-> inst[p].related_company_id,
                           full_name |-> x.sender_name])
    /\ inst' = [inst EXCEPT ![p].step = "thread"]
    /\ UNCHANGED <<parser, companies, email_threads, emails, history, calc, enrich, page>>

\* the thread upsert
CThread(p) ==
    /\ inst[p].step = "thread"
    /\ \E x \in {Cur(p)} :
          email_threads' = UpsertThread(email_threads,
                              [id |-> x.thread_id, subject |-> x.subject,
                               related_company_id |-> inst[p].related_company_id,
                               last_message_at |-> x.sent_at])
    /\ inst' = [inst EXCEPT ![p].step = "append"]
    /\ UNCHANGED <<parser, companies, contacts, emails, history, calc, enrich, page>>

\* sections 5-7: the record is appended, and flushed when the batch is full
CAppend(p) ==
    /\ inst[p].step = "append"
    /\ \E rec \in {[email_record(Cur(p), NameRoot, inst[p].related_company_id)
                        EXCEPT !.import_id = <<"import", p>>]} :
       \E fl \in {IF Len(inst[p].batch) + 1 >= batch_size
                  THEN flush_batch(Append(inst[p].batch, rec), emails, FALSE)
                  ELSE [batch |-> Append(inst[p].batch, rec), emails |-> emails,
                        submitted |-> <<>>, raised |-> FALSE]} :
          /\ emails' = fl.emails
          /\ inst' = [inst EXCEPT
                        ![p].batch = fl.batch,
                        ![p].stats = [@ EXCEPT !.processed = @ + 1],
                        ![p].i = @ + 1,
                        ![p].step = IF inst[p].i + 1 > Len(inst[p].msgs)
                                    THEN "final" ELSE "lookup"]
    /\ UNCHANGED <<parser, companies, contacts, email_threads, history, calc, enrich, page>>

\* the final flush of parse()
CFinal(p) ==
    /\ inst[p].step = "final"
    /\ \E fl \in {final_flush(inst[p].batch, emails, FALSE)} :
          /\ emails' = fl.emails
          /\ inst' = [inst EXCEPT ![p].batch = fl.batch, ![p].step = "done"]
    /\ UNCHANGED <<parser, companies, contacts, email_threads, history, calc, enrich, page>>

NextConcurrent ==
    \E p \in Instances :
        CLookup(p) \/ CInsert(p) \/ CContact(p) \/ CThread(p) \/ CAppend(p) \/ CFinal(p)

SpecConcurrent == InitConcurrent /\ [][NextConcurrent]_vars


\* ------------------------------------------------------------------------
\* The identity functions on their own: generate_thread_id on a subject and
\* the dedupe hash of sections 2-4 on a message
\* ------------------------------------------------------------------------
RECURSIVE Upper(_)
Upper(s) == IF s = <<>> THEN <<>> ELSE <<UpperChar(Head(s))>> \o Upper(Tail(s))

RECURSIVE Concat(_)
Concat(ss) == IF ss = <<>> THEN <<>> ELSE Head(ss) \o Concat(Tail(ss))

SubjQuote2 == <<"Q","u","o","t","e"," ","2">>
BaseSubjects == {<<>>, SubjQuote, SubjQuote2}

MarkRe == <<"R","e",":"," ">>
MarkReTight == <<"R","e",":">>
MarkFwd == <<"F","w","d",":"," ">>
MarkFW == <<"F","W",":"," ">>
TagExternal == <<"[","E","X","T","E","R","N","A","L","]"," ">>
TagExternalColon == <<"[","E","X","T","E","R","N","A","L","]",":"," ">>

ReplyMarks == {MarkRe, MarkReTight, MarkFwd, MarkFW}

\* what is put in front of the base subject: nothing, one marker or tag, or
\* a reply marker in front of a forward marker
MarkLists == {<<>>, <<MarkRe, MarkFwd>>}
             \cup {<<m>> : m \in ReplyMarks \cup {TagExternal, TagExternalColon}}

LetterCases == {"asis", "upper", "lower"}
Pads == {<<>>, <<" ">>}

InCase(s, letter_case) ==
    CASE letter_case = "upper" -> Upper(s)
      [] letter_case = "lower" -> Lower(s)
      [] OTHER -> s

\* the argument of a call of generate_thread_id: the base subject x with
\* marks in front, in a letter case, with whitespace around it
ThreadCall(x, marks, letter_case, lead, trail) ==
    [kind |-> "thread", x |-> x, marks |-> marks, letter_case |-> letter_case,
     lead |-> lead, trail |-> trail,
     subject |-> lead \o InCase(Concat(marks) \o x, letter_case) \o trail,
     applied |-> FALSE, thread_id |-> NULL, record_thread_id |-> NULL]

ThreadCalls ==
    {ThreadCall(x, marks, lc, lead, trail) :
        x \in BaseSubjects, marks \in MarkLists, lc \in LetterCases,
        lead \in Pads, trail \in Pads}

\* thread_id: generate_thread_id(subject) on the subject as given;
\* record_thread_id: the thread id _process_message puts in the record,
\* where subject = clean_text(message.subject)
ApplyThreadId ==
    /\ calc.kind = "thread"
    /\ ~calc.applied
    /\ calc' = [calc EXCEPT
                  !.applied = TRUE,
                  !.thread_id = generate_thread_id(calc.subject),
                  !.record_thread_id = generate_thread_id(clean_text(calc.subject))]
    /\ UNCHANGED <<parser, tables, history, inst, enrich, page>>

Repeat(c, n) == [i \in 1..n |-> c]

\* two bodies that agree on the first SnippetLen characters and differ after
BodyLong1 == Repeat("a", SnippetLen) \o <<"x">>
BodyLong2 == Repeat("a", SnippetLen) \o <<"y">>

\* the values a field of the message can take: From, To, Cc, subject,
\* delivery time, body
HashSenders == << <<AddrBuyer>>, <<AddrOps>>, NULL >>
HashToLists == << <<AddrOps, AddrBuyer>>, <<AddrBuyer, AddrOps>>,
                  <<Upper(AddrOps), AddrBuyer>>, <<AddrOps>>, NULL >>
HashCcs == << NULL, <<AddrAlice>> >>
HashSubjects == << SubjQuote, SubjReQuote >>
HashTimes == << NULL, <<1, "aware">>, <<2, "aware">> >>
HashBodies == << BodyA, BodyB, BodyLong1, BodyLong2 >>

HashChoices ==
    << Len(HashSenders), Len(HashToLists), Len(HashCcs), Len(HashSubjects),
       Len(HashTimes), Len(HashBodies) >>

\* a message is chosen by the index of the value of each field
HashMsg(ix) ==
    Msg(HashSubjects[ix[4]], HashSenders[ix[1]], HashToLists[ix[2]], HashCcs[ix[3]],
        NameBuyer, HashBodies[ix[6]], NULL, HashTimes[ix[5]], "none")

HashIxs ==
    {<<f, to, 1, s, d, b>> :
        f \in 1..Len(HashSenders), to \in 1..Len(HashToLists),
        s \in 1..Len(HashSubjects), d \in 1..Len(HashTimes),
        b \in 1..Len(HashBodies)}

\* message a, and the messages that differ from it in at most one field
VaryOne(a) ==
    UNION {{[a EXCEPT ![k] = v] : v \in 1..HashChoices[k]} : k \in DOMAIN HashChoices}

HashCall(a, b) ==
    [kind |-> "hash", a |-> a, b |-> b, applied |-> FALSE,
     hash_a |-> NULL, hash_b |-> NULL]

HashCalls == UNION {{HashCall(a, b) : b \in VaryOne(a)} : a \in HashIxs}

\* content_hash of _process_message for the two messages
ApplyDedupeHash ==
    /\ calc.kind = "hash"
    /\ ~calc.applied
    /\ calc' = [calc EXCEPT !.applied = TRUE,
                            !.hash_a = content_hash_of(HashMsg(calc.a)),
                            !.hash_b = content_hash_of(HashMsg(calc.b))]
    /\ UNCHANGED <<parser, tables, history, inst, enrich, page>>

InitIdentity ==
    /\ InitParser({<<>>}, {FALSE}, 0, 0)
    /\ inst = <<>>
    /\ calc \in ThreadCalls \cup HashCalls
    /\ enrich = NoEnrich
    /\ page = PageIdle

NextIdentity == ApplyThreadId \/ ApplyDedupeHash

SpecIdentity == InitIdentity /\ [][NextIdentity]_vars

\* ------------------------------------------------------------------------
\* The enrichment collaborator (ai_engine.py), run while or after the
\* pipeline ingests.  Each call of the model API or of storage is one step.
\* The id storage gives an emails row is one-to-one with its dedupe_hash,
\* which stands for it.
\* ------------------------------------------------------------------------
Workers == {1, 2}

EmailId(row) == row.dedupe_hash

Contains(s, sub) ==
    \E i \in 1..(Len(s) - Len(sub) + 1) : SubSeq(s, i, i + Len(sub) - 1) = sub

OutgoingMark == <<"a","d","a","m",".","l","a","r","k","i","n">>

\* "adam.larkin" in email.get('sender_email', '').lower(); the key is always
\* there, so a row without sender raises (None has no lower())
is_outgoing(email) == Contains(Lower(email.sender_email), OutgoingMark)

PartLong == <<"L","C","D","-","1","2">>
PartShort == <<"T","F","T">>
MinPartLen == 4

\* what the model returns for one email: whether it detected a commitment
\* (one commitment then), and the part numbers it found, by source type
AiResults ==
    {[detected |-> FALSE, parts |-> {}],
     [detected |-> TRUE, parts |-> {}],
     [detected |-> TRUE,
      parts |-> {<<PartLong, "customer_provided">>, <<PartShort, "recommended">>}]}

Perms(S) ==
    {s \in [1..Cardinality(S) -> S] : \A i, k \in 1..Cardinality(S) : s[i] = s[k] => i = k}

WorkerIdle == [step |-> "fetch", emails |-> <<>>, results |-> <<>>]

DomainNissan == <<"n","i","s","s","a","n",".","c","o","m">>

\* an incoming and an outgoing message
EnrichHandles == {1} \cup OutHandles

EnrichIdle(workers) ==
    [email_insights |-> {}, parts_recommended |-> {}, tasks |-> <<>>,
     faults |-> 0, w |-> [p \in workers |-> WorkerIdle]]

\* what storage holds after the ingestion of some of the messages: their
\* rows in emails, not yet enriched, and the company they are linked to
StoredCompany ==
    [id |-> Id(1), name |-> NameOf(DomainNissan), domain |-> DomainNissan,
     type |-> "Unclassified"]

StoredRow(h) ==
    [email_record(Extracted[h], NameRoot, StoredCompany.id)
        EXCEPT !.import_id = <<"import", 1>>]

\* two triggers of the enrichment on stored emails
InitEnrich ==
    /\ InitIdle({<<>>}, {TRUE}, 0, 0)
    /\ \E hs \in SUBSET EnrichHandles : emails = {StoredRow(h) : h \in hs}
    /\ companies = {StoredCompany}
    /\ contacts = {} /\ email_threads = {}
    /\ inst = <<>>
    /\ calc = NoCalc
    /\ enrich = EnrichIdle(Workers)
    /\ page = PageIdle

\* runs of the pipeline over small archives and one trigger of the
\* enrichment
InitIngestEnrich ==
    /\ InitParser(ArchivesOf(SeqsUpTo(EnrichHandles, MaxEnrichMsgs)), {TRUE}, 0, MaxRuns)
    /\ inst = <<>>
    /\ calc = NoCalc
    /\ enrich = EnrichIdle({CHOOSE p \in Workers : TRUE})
    /\ page = PageIdle

\* the emails of the batch that got a result: for i, ai_data in
\* enumerate(ai_batch): if i >= len(emails): break
Analysed(wk) == {i \in 1..Len(wk.results) : i <= Len(wk.emails)}

insights_batch(wk) ==
    [i \in Analysed(wk) |->
        [email_id |-> wk.emails[i].id, raw_ai_output |-> wk.results[i]]]

parts_batch(wk) ==
    UNION {{[email_id |-> wk.emails[i].id, part_number |-> pt[1],
             source_type |-> pt[2]] :
                pt \in {q \in wk.results[i].parts : Len(q[1]) >= MinPartLen}} :
           i \in Analysed(wk)}

\* one task per commitment of an outgoing email
tasks_batch(wk) ==
    LET committed(i) == is_outgoing(wk.emails[i]) /\ wk.results[i].detected
        idx == SelectSeq([i \in 1..Len(wk.results) |-> i], committed)
    IN  [n \in 1..Len(idx) |->
            [email_id |-> wk.emails[idx[n]].id, status |-> "pending"]]

email_ids_processed(wk) == {wk.emails[i].id : i \in Analysed(wk)}

\* the storage calls of _process_batch, in order.  company_updates stays
\* empty, as the fetched rows have no related_company_id column, so the
\* loop over it makes no call.
BatchCalls == <<"insights", "parts", "tasks", "flags">>

\* if insights_batch: ... if parts_batch: ... : a call is made for a
\* batch that is not empty
HasCall(wk, call) ==
    CASE call = "insights" -> Analysed(wk) # {}
      [] call = "parts" -> parts_batch(wk) # {}
      [] call = "tasks" -> tasks_batch(wk) # <<>>
      [] call = "flags" -> email_ids_processed(wk) # {}

\* the call made after the n-th one, or "done" when the batch returns
RECURSIVE CallAfter(_, _)
CallAfter(wk, n) ==
    IF n >= Len(BatchCalls) THEN "done"
    ELSE IF HasCall(wk, BatchCalls[n + 1]) THEN BatchCalls[n + 1]
    ELSE CallAfter(wk, n + 1)

\* the environment may fail a call
CallFails == {FALSE} \cup (IF enrich.faults < MaxEnrichFaults THEN {TRUE} ELSE {})

\* the batch raises: print and raise e
BatchFailed(p) ==
    [enrich EXCEPT !.w[p].step = "failed", !.faults = @ + 1]

\* select("id, message_id, subject, body, from_name, sender_email, sent_at,
\* recipient_emails, cc_emails")
SelectColumns(e) ==
    [id |-> EmailId(e), subject |-> e.subject, body |-> e.body,
     from_name |-> e.from_name, sender_email |-> e.sender_email,
     sent_at |-> e.sent_at, recipient_emails |-> e.recipient_emails,
     cc_emails |-> e.cc_emails]

\* run_enrichment: emails = ai_engine.get_unprocessed_emails(limit=150):
\* the rows with processed_by_ai = False, in an order storage chooses
EFetch(p) ==
    /\ enrich.w[p].step = "fetch"
    /\ \E rows \in Perms({SelectColumns(e) : e \in {r \in emails : ~r.processed_by_ai}}) :
          enrich' = [enrich EXCEPT
                       !.w[p].emails = rows,
                       !.w[p].step = IF rows = <<>> THEN "done" ELSE "analyse"]
    /\ UNCHANGED <<parser, tables, history, inst, calc, page>>

\* _process_batch: the request to the model and the loop over its results,
\* up to the first storage call
EAnalyse(p) ==
    /\ enrich.w[p].step = "analyse"
    /\ \E fails \in CallFails :
          IF fails THEN enrich' = BatchFailed(p)
          ELSE \E k \in 0..Len(enrich.w[p].emails) :
               \E results \in [1..k -> AiResults] :
               \E wk \in {[enrich.w[p] EXCEPT !.results = results]} :
                  IF \E i \in Analysed(wk) : wk.emails[i].sender_email = NULL
                  THEN enrich' = [enrich EXCEPT !.w[p].step = "failed"]
                  ELSE enrich' = [enrich EXCEPT !.w[p].results = results,
                                                !.w[p].step = CallAfter(wk, 0)]
    /\ UNCHANGED <<parser, tables, history, inst, calc, page>>

\* table("email_insights").upsert(insights_batch, on_conflict="email_id")
UpsertInsights(tbl, rows) ==
    {r \in tbl : \A n \in rows : n.email_id # r.email_id} \cup rows

EInsights(p) ==
    /\ enrich.w[p].step = "insights"
    /\ \E fails \in CallFails :
          IF fails THEN enrich' = BatchFailed(p)
          ELSE enrich' = [enrich EXCEPT
                            !.email_insights =
                                UpsertInsights(@, Range(insights_batch(enrich.w[p]))),
                            !.w[p].step = CallAfter(enrich.w[p], 1)]
    /\ UNCHANGED <<parser, tables, history, inst, calc, page>>

\* table("parts_recommended").upsert(parts_batch, on_conflict="email_id,
\* part_number, source_type", ignore_duplicates=True): a row is its key
EParts(p) ==
    /\ enrich.w[p].step = "parts"
    /\ \E fails \in CallFails :
          IF fails THEN enrich' = BatchFailed(p)
          ELSE enrich' = [enrich EXCEPT
                            !.parts_recommended = @ \cup parts_batch(enrich.w[p]),
                            !.w[p].step = CallAfter(enrich.w[p], 2)]
    /\ UNCHANGED <<parser, tables, history, inst, calc, page>>

\* table("tasks").insert(tasks_batch)
ETasks(p) ==
    /\ enrich.w[p].step = "tasks"
    /\ \E fails \in CallFails :
          IF fails THEN enrich' = BatchFailed(p)
          ELSE enrich' = [enrich EXCEPT
                            !.tasks = @ \o tasks_batch(enrich.w[p]),
                            !.w[p].step = CallAfter(enrich.w[p], 3)]
    /\ UNCHANGED <<parser, tables, history, inst, calc, page>>

\* faulty variant: every email of the batch is flagged
FlagBatch(wk) == {wk.emails[i].id : i \in 1..Len(wk.emails)}

\* the ids of update({"processed_by_ai": True}).in_("id", email_ids_processed)
FlagIds(wk) == email_ids_processed(wk)

EFlags(p) ==
    /\ enrich.w[p].step = "flags"
    /\ \E fails \in CallFails :
          IF fails THEN enrich' = BatchFailed(p) /\ UNCHANGED emails
          ELSE /\ emails' = {IF EmailId(e) \in FlagIds(enrich.w[p])
                             THEN [e EXCEPT !.processed_by_ai = TRUE] ELSE e : e \in emails}
               /\ enrich' = [enrich EXCEPT !.w[p].step = "done"]
    /\ UNCHANGED <<parser, companies, contacts, email_threads, history, inst, calc, page>>

Enrichment ==
    \E p \in DOMAIN enrich.w :
        EFetch(p) \/ EAnalyse(p) \/ EInsights(p) \/ EParts(p) \/ ETasks(p) \/ EFlags(p)

SpecEnrich == InitEnrich /\ [][Enrichment]_vars

NextIngestEnrich == Next \/ Enrichment

SpecIngestEnrich == InitIngestEnrich /\ [][NextIngestEnrich]_vars

\* ------------------------------------------------------------------------
Hashes(rows) == {e.dedupe_hash : e \in rows}

StorageAvailable == supabase /\ nfaults = 0

\* the second run has finished and it ingested the archive of the first run
ReingestedSame == pc = "done" /\ run = 2 /\ snap # <<>> /\ archive = snap[1]

\* C1: after any sequence of completed runs with storage available, emails
\* holds exactly one row per distinct dedupe hash among the ingested
\* messages, and ingesting the same archive twice gives the row count of
\* ingesting it once.
C1_OneRowPerHash ==
    (pc = "done" /\ StorageAvailable) =>
        /\ Hashes(emails) = everHashes
        /\ Cardinality(emails) = Cardinality(everHashes)
        /\ ReingestedSame => Cardinality(emails) = Cardinality(snap[5])

C1_Witness ==
    /\ ReingestedSame /\ StorageAvailable
    /\ Cardinality(emails) = 1
    /\ Len(appended) = 2

\* C2: a second complete ingestion of the same archive, storage available,
\* leaves companies, contacts, email_threads and emails exactly as they were
\* after the first run.
C2_SecondRunChangesNothing ==
    (ReingestedSame /\ StorageAvailable) =>
        <<companies, contacts, email_threads, emails>> =
            <<snap[2], snap[3], snap[4], snap[5]>>

\* C3: a flush never changes or deletes a stored emails row, and inserts
\* only records whose dedupe hash is not yet stored.
C3_FlushKeepsRows ==
    [][ /\ emails \subseteq emails'
        /\ \A r \in emails' \ emails : r.dedupe_hash \notin Hashes(emails) ]_vars

\* a record of the second run, with another import id, was submitted and
\* its hash was already stored by the first run
C3_Witness ==
    /\ pc = "done" /\ run = 2 /\ StorageAvailable
    /\ \E e \in emails : \E i \in 1..Len(flushLog) : \E k \in 1..Len(flushLog[i].recs) :
          LET r == flushLog[i].recs[k]
          IN  /\ flushLog[i].ok
              /\ r.dedupe_hash = e.dedupe_hash
              /\ e.import_id = <<"import", 1>>
              /\ r.import_id = <<"import", 2>>
              /\ r.related_company_id # e.related_company_id

\* the messages of a folder tree in depth-first pre-order, each with the
\* path of its folder
RECURSIVE PreOrder(_, _)
PreOrder(folder, path) ==
    LET RECURSIVE Subs(_)
        Subs(k) ==
            IF k > Len(folder.sub_folders) THEN <<>>
            ELSE PreOrder(folder.sub_folders[k],
                          path \o <<"/">> \o folder.sub_folders[k].name) \o Subs(k + 1)
    IN  [i \in 1..Len(folder.sub_messages) |->
            [h |-> folder.sub_messages[i], path |-> path]] \o Subs(1)

AllMessages == IF archive = <<>> THEN <<>> ELSE PreOrder(archive[1], NameRoot)

Raises(e) == AllPool[e.h].fail # "none"
Sound(e) == ~Raises(e)

\* C4: parse() visits every message of every folder, buffers exactly the
\* messages whose processing does not raise, in traversal order, and
\* returns errors = number of raising messages, processed = the others.
C4_ErrorIsolation ==
    pc = "done" =>
        LET good == SelectSeq(AllMessages, Sound)
        IN  /\ stats.errors = Len(SelectSeq(AllMessages, Raises))
            /\ stats.processed = Len(AllMessages) - Len(SelectSeq(AllMessages, Raises))
            /\ Len(appended) = Len(good)
            /\ \A i \in 1..Len(good) :
                  /\ appended[i].dedupe_hash = Extracted[good[i].h].content_hash
                  /\ appended[i].folder_path = good[i].path

\* a sound message of a sibling folder was buffered after a raising one
C4_Witness ==
    /\ pc = "done"
    /\ archive # <<>> /\ archive[1].sub_folders # <<>>
    /\ stats.errors = 1 /\ stats.processed = 1
    /\ Raises(AllMessages[1])
    /\ lastMsg.kind = "buffered"

EntityFailures == {"lookup", "insert", "contact", "thread"}

\* C5: when a storage call of entity resolution fails for a message, the
\* message is still buffered and its record has related_company_id = None.
C5_FailedResolutionLeavesNoCompany ==
    (lastMsg.kind = "buffered" /\ lastMsg.outcome \in EntityFailures) =>
        lastMsg.record.related_company_id = NULL

RECURSIVE Flatten(_)
Flatten(log) == IF log = <<>> THEN <<>> ELSE Head(log).recs \o Flatten(Tail(log))

FlushJustFailed ==
    /\ Len(flushLog') > Len(flushLog)
    /\ ~flushLog'[Len(flushLog')].ok

\* C6: when a flush fails in storage the error is not propagated, the buffer
\* is empty afterwards, the records of the failed batch are never submitted
\* again in the run, and the traversal goes on to the remaining messages
\* and folders.
C6_FailedFlushDropsBatch ==
    /\ [][FlushJustFailed => (batch' = <<>> /\ pc' \in {"parsing", "done"})]_vars
    /\ [](Flatten(flushLog) \o batch = appended)
    /\ [](pc # "raised")
    /\ [](pc = "done" => stats.processed + stats.errors = Len(AllMessages))

\* a flush failed and a later flush of the same run went through
C6_Witness ==
    /\ pc = "done"
    /\ \E i, j \in 1..Len(flushLog) : i < j /\ ~flushLog[i].ok /\ flushLog[j].ok

FailedFlushes == Cardinality({i \in 1..Len(flushLog) : ~flushLog[i].ok})

\* C8: for every folder tree and every combination of per-message
\* failures, entity-resolution failures and flush failures, parse()
\* terminates and returns the tally; no failure leaves parse().
C8_ParseTerminates ==
    /\ (pc = "parsing") ~>
          (pc = "done" /\ stats.processed + stats.errors = Len(AllMessages))
    /\ [](pc # "raised")

\* a run with a raising message, a failed entity-resolution call and a
\* failed flush has returned
C8_Witness ==
    /\ pc = "done"
    /\ stats.errors >= 1
    /\ FailedFlushes = 1
    /\ nfaults = 2

\* C9: every record built has timestamp_missing = TRUE iff sent_at is None.
C9_TimestampMissingIffNoSentAt ==
    \A i \in 1..Len(appended) :
        appended[i].timestamp_missing <=> (appended[i].sent_at = NULL)

\* an undated record, and a dated one whose conversion to UTC raised
C9_Witness ==
    \E i, j \in 1..Len(appended) :
        /\ appended[i].sent_at = NULL
        /\ appended[j].sent_at # NULL
        /\ ~EndsWith(appended[j].sent_at, UtcSuffix)

\* C10: in sequential runs the first message with primary domain d creates
\* one company row (type Unclassified, name the capitalized first label),
\* later messages with primary domain d get the id of that row, rows are
\* never changed, and no two rows have the same domain.
C10_OneCompanyPerDomain ==
    /\ [](\A c1, c2 \in companies : c1.domain = c2.domain => c1 = c2)
    /\ [](\A c \in companies :
            /\ c.type = "Unclassified"
            /\ c.name = Capitalize(FirstLabel(c.domain))
            /\ c.domain = DomainNissan => c.name = <<"N","i","s","s","a","n">>)
    /\ []((lastMsg.kind = "buffered" /\ lastMsg.outcome = "ok") =>
            \E c \in companies :
                /\ c.domain = lastMsg.domain
                /\ c.id = lastMsg.record.related_company_id)
    /\ [][ /\ companies \subseteq companies'
           /\ Cardinality(companies' \ companies) <= 1 ]_vars

\* two messages of different senders of one domain share the company row
C10_Witness ==
    /\ pc = "done" /\ StorageAvailable
    /\ Cardinality(companies) = 1
    /\ Len(appended) = 2
    /\ appended[1].sender_email # appended[2].sender_email
    /\ appended[1].related_company_id # NULL
    /\ appended[1].related_company_id = appended[2].related_company_id
    /\ \A c \in companies : c.domain = DomainNissan

AllDone == \A p \in Instances : inst[p].step = "done"

\* C11: when two instances resolve the same unseen domain concurrently and
\* storage enforces uniqueness of companies.domain, companies never holds
\* two rows of one domain, the refused insert leaves the row of the other
\* instance in place, and both runs process all their messages without an
\* error.
C11_ConcurrentInsertsCollapse ==
    /\ \A c1, c2 \in companies : c1.domain = c2.domain => c1 = c2
    /\ \A p \in Instances :
          /\ inst[p].stats.errors = 0
          /\ inst[p].step = "done" => inst[p].stats.processed = Len(inst[p].msgs)
          /\ \A d \in inst[p].refused :
                Cardinality({c \in companies : c.domain = d}) = 1

\* both instances looked the domain up before either inserted it, and both
\* runs have returned
C11_Witness ==
    /\ AllDone
    /\ \E p \in Instances : inst[p].refused # {} /\ Len(inst[p].msgs) = 1
    /\ Cardinality(companies) = 1

NoTables == [companies |-> {}, contacts |-> {}, email_threads |-> {}, emails |-> {}]

\* one message ingested on tables tb with no other instance running
IngestOne(x, tb) ==
    LET domain == IF x.external_emails = {} THEN NULL
                  ELSE DomainOf(CHOOSE e \in x.external_emails : TRUE)
        comps == IF domain = NULL \/ SelectCompanies(tb.companies, domain) # {}
                 THEN tb.companies ELSE InsertCompany(tb.companies, domain)
        cid == IF domain = NULL THEN NULL
               ELSE FirstRow(SelectCompanies(comps, domain)).id
    IN  [companies |-> comps,
         contacts |-> IF domain # NULL /\ WithContact(x)
                      THEN UpsertContact(tb.contacts,
                              [email |-> x.sender_email, company_id |-> cid,
                               full_name |-> x.sender_name])
                      ELSE tb.contacts,
         email_threads |-> IF domain # NULL
                           THEN UpsertThread(tb.email_threads,
                                   [id |-> x.thread_id, subject |-> x.subject,
                                    related_company_id |-> cid,
                                    last_message_at |-> x.sent_at])
                           ELSE tb.email_threads,
         emails |-> UpsertIgnoreDuplicates(tb.emails,
                        <<email_record(x, NameRoot, cid)>>)]

\* the archives ms ingested one after the other
RECURSIVE SeqRun(_, _)
SeqRun(ms, tb) ==
    IF ms = <<>> THEN tb ELSE SeqRun(Tail(ms), IngestOne(Extracted[Head(ms)], tb))

Keys(tb) ==
    [companies |-> {c.domain : c \in tb.companies},
     contacts |-> {c.email : c \in tb.contacts},
     email_threads |-> {th.id : th \in tb.email_threads},
     emails |-> {e.dedupe_hash : e \in tb.emails}]

\* C12: when two instances have ingested their archives concurrently, with
\* unique keys enforced and no storage outage, the sets of keys in the four
\* tables are those of ingesting the two archives one after the other.
C12_ConcurrentEqualsSequential ==
    AllDone =>
        Keys([companies |-> companies, contacts |-> contacts,
              email_threads |-> email_threads, emails |-> emails])
          = Keys(SeqRun(inst[1].msgs \o inst[2].msgs, NoTables))

\* an address is external when it does not end with the organisation's suffix
IsExternal(e) == e # NULL /\ ~EndsWith(e, OrgSuffix)

\* C13: for a message with an external participant the company is resolved
\* for the sender's domain whenever the sender is external.
C13_SenderDomainIsPrimary ==
    (/\ lastMsg.kind = "buffered"
     /\ lastMsg.outcome = "ok"
     /\ IsExternal(lastMsg.record.sender_email)) =>
        lastMsg.domain = DomainOf(lastMsg.record.sender_email)

\* C14: after a message went through entity resolution with storage
\* available, a thread row with the message's thread id exists, with the
\* message's sent_at and company, also for a message without external
\* participant; no two thread rows have the same id.
C14_ThreadRefreshed ==
    /\ \A t1, t2 \in email_threads : t1.id = t2.id => t1 = t2
    /\ (lastMsg.kind = "buffered" /\ supabase /\ lastMsg.outcome \in {"ok", "skipped"}) =>
          \E th \in email_threads :
              /\ th.id = lastMsg.record.thread_id
              /\ th.last_message_at = lastMsg.record.sent_at
              /\ th.related_company_id = lastMsg.record.related_company_id

ThreadApplied == calc.kind = "thread" /\ calc.applied

\* nothing or one reply / forward marker in front of the base subject
PlainOrReply == {<<>>} \cup {<<m>> : m \in ReplyMarks}

\* C15 as stated: X, "Re: X", "Fwd: X" and "FW: X", in any letter case and
\* with whitespace around them, get the thread id of X, and a subject that
\* normalizes differently gets another id.
C15_ReplyMarkersShareThread ==
    (ThreadApplied /\ calc.marks \in PlainOrReply) =>
        /\ calc.thread_id = generate_thread_id(calc.x)
        /\ \A y \in BaseSubjects \ {calc.x} : generate_thread_id(y) # calc.thread_id

\* C15 amended: for a non-empty X the same holds for the subject with
\* whitespace after the marker and at the end, and with whitespace in
\* front once the subject has been trimmed, as records get it.
C15_ReplyMarkersShareThreadTrimmed ==
    (ThreadApplied /\ calc.marks \in PlainOrReply /\ calc.x # <<>>) =>
        /\ calc.record_thread_id = generate_thread_id(calc.x)
        /\ calc.lead = <<>> => calc.thread_id = generate_thread_id(calc.x)
        /\ \A y \in BaseSubjects \ {calc.x} :
              generate_thread_id(y) # calc.record_thread_id

\* " FW: QUOTE " got the thread id of "Quote"
C15_Witness ==
    /\ ThreadApplied
    /\ calc.x = SubjQuote /\ calc.marks = <<MarkFW>> /\ calc.letter_case = "upper"
    /\ calc.lead # <<>> /\ calc.trail # <<>>
    /\ calc.record_thread_id = Sha1(<<"q","u","o","t","e">>)

\* C16: a leading bracketed tag is stripped like a reply marker, and an
\* absent or empty subject gets the sentinel thread id.
C16_BracketTagStripped ==
    /\ generate_thread_id(NULL) = UnknownThread
    /\ generate_thread_id(<<>>) = UnknownThread
    /\ (ThreadApplied /\ calc.marks = <<TagExternal>> /\ calc.lead = <<>>
          /\ calc.x # <<>>) =>
            calc.thread_id = generate_thread_id(calc.x)

\* C17: one leading marker is stripped: "Re: Fwd: X" normalizes to "fwd: x",
\* its thread id differs from those of "Fwd: X" and of "X", and normalizing
\* the normalized subject again gives another string.
C17_OneMarkerStripped ==
    (ThreadApplied /\ calc.marks = <<MarkRe, MarkFwd>> /\ calc.lead = <<>>) =>
        LET once == Lower(Strip(StripMarker(calc.subject)))
        IN  /\ calc.thread_id = Sha1(Lower(Strip(MarkFwd \o calc.x)))
            /\ calc.thread_id # generate_thread_id(MarkFwd \o calc.x)
            /\ calc.thread_id # generate_thread_id(calc.x)
            /\ Lower(Strip(StripMarker(once))) # once

\* "Re: Fwd: Quote" got the thread id of "fwd: quote"
C17_Witness ==
    /\ ThreadApplied
    /\ calc.x = SubjQuote /\ calc.marks = <<MarkRe, MarkFwd>>
    /\ calc.lead = <<>> /\ calc.letter_case = "asis"
    /\ calc.thread_id = Sha1(<<"f","w","d",":"," ","q","u","o","t","e">>)

HashApplied == calc.kind = "hash" /\ calc.applied

\* the recipient addresses of a To header, without letter case and order
RecipSet(to) == IF to = NULL THEN {} ELSE {Lower(to[i]) : i \in 1..Len(to)}

\* the two messages have the same recipients
SameRecipients == RecipSet(HashToLists[calc.a[2]]) = RecipSet(HashToLists[calc.b[2]])

\* C18: two messages with the same sender, the same set of recipients in
\* any order and letter case, the same subject, sent_at and body have the
\* same dedupe hash.
C18_HashIgnoresRecipientOrder ==
    (/\ HashApplied
     /\ \A k \in {1, 4, 5, 6} : calc.a[k] = calc.b[k]
     /\ SameRecipients) =>
        calc.hash_a = calc.hash_b

\* the To headers list the same addresses in another order
C18_Witness ==
    /\ HashApplied
    /\ HashToLists[calc.a[2]] = <<AddrOps, AddrBuyer>>
    /\ HashToLists[calc.b[2]] = <<AddrBuyer, AddrOps>>
    /\ calc.hash_a = calc.hash_b

\* the two messages differ in one of sender, recipients, subject, sent_at
HeaderChanged ==
    \/ \E k \in {1, 4, 5} : calc.a[k] # calc.b[k]
    \/ ~SameRecipients

\* C19 as stated: changing one of sender, recipients, subject, sent_at and
\* body, the others kept, changes the dedupe hash.
C19_AnyFieldChangesHash ==
    (HashApplied /\ (HeaderChanged \/ calc.a[6] # calc.b[6])) =>
        calc.hash_a # calc.hash_b

\* C19 amended: changing one of sender, recipients, subject, sent_at and the
\* first 200 characters of the body changes the dedupe hash; two bodies
\* that differ only after the first 200 characters give the same hash.
C19_HashedFieldChangesHash ==
    /\ (HashApplied /\ (HeaderChanged \/
            Prefix(HashBodies[calc.a[6]], SnippetLen)
              # Prefix(HashBodies[calc.b[6]], SnippetLen))) =>
          calc.hash_a # calc.hash_b
    /\ (HashApplied /\ ~HeaderChanged /\
            Prefix(HashBodies[calc.a[6]], SnippetLen)
              = Prefix(HashBodies[calc.b[6]], SnippetLen)) =>
          calc.hash_a = calc.hash_b

\* the subjects differ and so do the hashes; in another call only the ends
\* of two long bodies differ
C19_Witness ==
    /\ HashApplied
    /\ calc.a[4] # calc.b[4]
    /\ Len(HashBodies[calc.a[6]]) > SnippetLen
    /\ calc.hash_a # calc.hash_b

Undated(r) == r.sent_at = NULL

\* the string an undated record is hashed from
UndatedRaw(r) ==
    (IF r.sender_email = NULL THEN <<"u","n","k","n","o","w","n">> ELSE r.sender_email)
    \o <<"|">> \o Join(<<",">>, Sorted(r.recipient_emails)) \o <<"|">> \o r.subject
    \o <<"|","m","i","s","s","i","n","g","|">> \o Prefix(r.body, SnippetLen)

\* C20: two messages without delivery time that agree on sender,
\* recipients, subject and body have the same dedupe hash, computed with
\* the sentinel "missing", and at most one row of emails has that hash.
C20_UndatedDuplicatesCollide ==
    /\ \A i, j \in 1..Len(appended) :
          (/\ Undated(appended[i]) /\ Undated(appended[j])
           /\ appended[i].sender_email = appended[j].sender_email
           /\ appended[i].recipient_emails = appended[j].recipient_emails
           /\ appended[i].subject = appended[j].subject
           /\ appended[i].body = appended[j].body) =>
              /\ appended[i].dedupe_hash = appended[j].dedupe_hash
              /\ appended[i].dedupe_hash = Sha256(UndatedRaw(appended[i]))
    /\ \A e1, e2 \in emails : e1.dedupe_hash = e2.dedupe_hash => e1 = e2

\* two undated copies of a message in different folders, one row stored
C20_Witness ==
    /\ pc = "done" /\ StorageAvailable
    /\ Len(appended) = 2
    /\ Undated(appended[1]) /\ Undated(appended[2])
    /\ appended[1].folder_path # appended[2].folder_path
    /\ Cardinality(emails) = 1

Min(a, b) == IF a < b THEN a ELSE b

\* the body _process_message extracts from the message of entry e
BodyOf(e) == body_text_of(AllPool[e.h])

\* C21: the body stored in a record is the first min(length, cap)
\* characters of the extracted body; every message is buffered whatever
\* the length of its body, and with storage available a row with the
\* capped body is in emails when the run has ended.
C21_BodyCapped ==
    /\ Len(appended) <= Len(AllMessages)
    /\ \A i \in 1..Len(appended) :
          /\ Len(appended[i].body) = Min(Len(BodyOf(AllMessages[i])), BodyCap)
          /\ appended[i].body = SubSeq(BodyOf(AllMessages[i]), 1, Len(appended[i].body))
    /\ pc = "done" =>
          /\ Len(appended) = Len(AllMessages)
          /\ supabase =>
                \A i \in 1..Len(appended) : \E e \in emails :
                    /\ e.dedupe_hash = appended[i].dedupe_hash
                    /\ e.body = appended[i].body

\* a message with a body of cap + 1 characters and one with exactly cap
\* characters are both stored, with bodies of cap characters
C21_Witness ==
    /\ pc = "done" /\ supabase
    /\ Len(appended) = 2
    /\ Len(BodyOf(AllMessages[1])) > BodyCap
    /\ Len(BodyOf(AllMessages[2])) = BodyCap
    /\ Cardinality({e \in emails : Len(e.body) = BodyCap}) = 2

PathInbox == <<"R","o","o","t","/","I","n","b","o","x">>
PathProjects == <<"R","o","o","t","/","I","n","b","o","x","/","P","r","o","j","e","c","t","s">>
PathSent == <<"R","o","o","t","/","S","e","n","t">>

\* the place of a folder of the tree in depth-first pre-order
PathRank(path) ==
    CASE path = NameRoot -> 1
      [] path = PathInbox -> 2
      [] path = PathProjects -> 3
      [] path = PathSent -> 4
      [] OTHER -> 0

\* C22: at every moment of the traversal the buffered records are the
\* first sound messages of the depth-first pre-order of the tree (a folder's
\* messages, then the subtree of each subfolder in turn), each with the
\* path of its folder: "Root" and the names of the folders joined by "/".
C22_PreOrderTraversal ==
    LET good == SelectSeq(AllMessages, Sound)
    IN  /\ Len(appended) <= Len(good)
        /\ \A i \in 1..Len(appended) :
              /\ appended[i].dedupe_hash = Extracted[good[i].h].content_hash
              /\ appended[i].folder_path = good[i].path
              /\ PathRank(appended[i].folder_path) > 0
        /\ \A i, k \in 1..Len(appended) :
              i < k => PathRank(appended[i].folder_path) <= PathRank(appended[k].folder_path)
        /\ pc = "done" => Len(appended) = Len(good)

\* one message in each of Root, Inbox, Projects and Sent, buffered in that
\* order
C22_Witness ==
    /\ pc = "done"
    /\ Len(appended) = 4
    /\ [i \in 1..4 |-> appended[i].folder_path]
          = <<NameRoot, PathInbox, PathProjects, PathSent>>
    /\ appended[1].dedupe_hash # appended[2].dedupe_hash

\* C23: for every batch_size, with or without a storage client, the buffer
\* holds fewer than batch_size records after each message, and every flush
\* other than the final one submits exactly batch_size records.
C23_FlushAtThreshold ==
    /\ Len(batch) < batch_size
    /\ \A i \in 1..Len(flushLog) :
          \/ pc = "done" /\ i = Len(flushLog)
          \/ Len(flushLog[i].recs) = batch_size

\* the message the next step of the traversal processes
CurrentFields == Extracted[Top.folder.sub_messages[Top.i]]

\* the step wrote the contact row of the sender of the current message
\* and no other row
WroteSenderContact ==
    /\ CurrentFields.sender_email # NULL
    /\ IsExternal(CurrentFields.sender_email)
    /\ \E row \in contacts' :
          /\ row.email = CurrentFields.sender_email
          /\ row.full_name = CurrentFields.sender_name
          /\ \E c \in companies' : c.id = row.company_id
          /\ lastMsg'.kind = "buffered" =>
                row.company_id = lastMsg'.record.related_company_id
          /\ contacts' = {c \in contacts : c.email # row.email} \cup {row}

\* C24: a contact row is written only for the external sender of the
\* message being processed, never for a recipient, a cc address or an
\* internal sender; the row of the sender's email then has the sender's
\* display name and the company id resolved for the message, and contacts
\* never has two rows with one email.
C24_ContactOnlyForExternalSender ==
    /\ [][contacts' # contacts => WroteSenderContact]_vars
    /\ [](\A c1, c2 \in contacts : c1.email = c2.email => c1 = c2)

\* two messages of one sender were resolved for different companies: the
\* contact row has the company of the second
C24_Witness ==
    /\ Len(appended) = 2
    /\ appended[1].sender_email = appended[2].sender_email
    /\ appended[1].related_company_id # NULL
    /\ appended[2].related_company_id # NULL
    /\ appended[1].related_company_id # appended[2].related_company_id
    /\ appended[2].recipient_emails # {}
    /\ contacts = {[email |-> appended[2].sender_email,
                    company_id |-> appended[2].related_company_id,
                    full_name |-> appended[2].from_name]}

\* the first run was aborted
Aborted == Len(snap) = 6

\* the run after the abort has returned
Resumed == Aborted /\ run = 2 /\ pc = "done"

\* a row without the import it came with and the company resolved for it
Content(r) ==
    [dedupe_hash |-> r.dedupe_hash, thread_id |-> r.thread_id,
     subject |-> r.subject, body |-> r.body, from_name |-> r.from_name,
     sender_email |-> r.sender_email, recipient_emails |-> r.recipient_emails,
     cc_emails |-> r.cc_emails, sent_at |-> r.sent_at,
     timestamp_missing |-> r.timestamp_missing, folder_path |-> r.folder_path,
     processed_by_ai |-> r.processed_by_ai]

\* what one uninterrupted run over the archive stores: the record of the
\* first sound message of each dedupe hash, in traversal order
UninterruptedRows ==
    LET good == SelectSeq(AllMessages, Sound)
        HashAt(i) == Extracted[good[i].h].content_hash
        first == {i \in 1..Len(good) : \A k \in 1..(i - 1) : HashAt(k) # HashAt(i)}
    IN  {Content(email_record(Extracted[good[i].h], good[i].path, NULL)) : i \in first}

\* C25 as stated: after an abort and a complete re-run the rows flushed
\* before the abort are still there and emails holds the rows of one
\* uninterrupted run, which all come with the import of that run.
C25_ResumedRunSameRows ==
    /\ Aborted => snap[5] \subseteq emails
    /\ (Resumed /\ supabase) =>
          /\ {Content(e) : e \in emails} = UninterruptedRows
          /\ Cardinality(emails) = Cardinality(UninterruptedRows)
          /\ \A e1, e2 \in emails : e1.import_id = e2.import_id

\* C25 amended: the rows flushed before the abort are still there,
\* unchanged, and emails holds one row per dedupe hash, with the content of
\* the rows of one uninterrupted run; the rows of the aborted run keep its
\* import.
C25_ResumedRunSameContent ==
    /\ Aborted => snap[5] \subseteq emails
    /\ (Resumed /\ supabase) =>
          /\ {Content(e) : e \in emails} = UninterruptedRows
          /\ Cardinality(emails) = Cardinality(UninterruptedRows)
          /\ \A e \in emails :
                e.import_id = (IF e \in snap[5] THEN <<"import", 1>> ELSE <<"import", 2>>)

\* the first run flushed one of two messages before it was aborted; the
\* re-run stored the other
C25_Witness ==
    /\ Resumed /\ supabase
    /\ Cardinality(snap[5]) = 1
    /\ Cardinality(emails) = 2
    /\ Len(appended) = 2

\* C27: every contact row references the company of the domain of its own
\* email address.
C27_ContactCompanyOfOwnDomain ==
    \A c \in contacts : \E co \in companies :
        /\ co.id = c.company_id
        /\ co.domain = DomainOf(c.email)

\* C26: every record the pipeline submits has processed_by_ai = False, and
\* a step of the pipeline neither removes nor changes a stored emails row,
\* so the flag of a row is changed by the enrichment only.
C26_PipelineLeavesFlag ==
    /\ [](\A i \in 1..Len(flushLog) : \A k \in 1..Len(flushLog[i].recs) :
            flushLog[i].recs[k].processed_by_ai = FALSE)
    /\ [][enrich' = enrich =>
            /\ emails \subseteq emails'
            /\ \A e \in emails' \ emails : e.processed_by_ai = FALSE]_vars

\* a row was enriched during the first run; the second run submitted a
\* record with its hash and the row is still flagged
C26_Witness ==
    /\ ReingestedSame
    /\ \E e \in snap[5] :
          /\ e.processed_by_ai
          /\ e \in emails
          /\ \E i \in 1..Len(flushLog) : \E k \in 1..Len(flushLog[i].recs) :
                /\ flushLog[i].ok
                /\ flushLog[i].recs[k].dedupe_hash = e.dedupe_hash

HasInsights(e) == \E r \in enrich.email_insights : r.email_id = EmailId(e)

\* the rows whose flag the step sets
Flipped == {e \in emails : ~e.processed_by_ai
                /\ \E f \in emails' : EmailId(f) = EmailId(e) /\ f.processed_by_ai}

\* C28: every emails row with processed_by_ai = True has an email_insights
\* row; the flag of a row is set only by a batch that got an analysis
\* result for it, after its insights upsert, in the step with which the
\* batch returns, and never by a batch that fails.
C28_FlaggedHaveInsights ==
    /\ [](\A e \in emails : e.processed_by_ai => HasInsights(e))
    /\ [][\A e \in Flipped :
            \E p \in DOMAIN enrich.w :
                /\ enrich.w[p].step = "flags"
                /\ enrich'.w[p].step = "done"
                /\ EmailId(e) \in email_ids_processed(enrich.w[p])
                /\ HasInsights(e)]_vars
    /\ [](\A p \in DOMAIN enrich.w :
            enrich.w[p].step = "failed" =>
                \A q \in DOMAIN enrich.w \ {p} :
                    enrich.w[q].step # "done" => \A e \in emails : ~e.processed_by_ai)

\* a batch of two emails got one analysis result and returned: that email
\* is flagged and has insights, the other is not flagged; the other batch
\* failed
C28_Witness ==
    \E p, q \in DOMAIN enrich.w :
        /\ enrich.w[p].step = "done" /\ enrich.w[q].step = "failed"
        /\ Len(enrich.w[p].emails) = 2 /\ Len(enrich.w[p].results) = 1
        /\ {EmailId(e) : e \in {r \in emails : r.processed_by_ai}}
             = {enrich.w[p].emails[1].id}
        /\ \A e \in emails : e.processed_by_ai => HasInsights(e)

\* C29: each email is enriched at most once: its commitments are inserted
\* into tasks at most once, and it has at most one email_insights row and
\* one parts_recommended row per part number.
C29_EnrichedAtMostOnce ==
    /\ \A i, k \in 1..Len(enrich.tasks) :
            enrich.tasks[i].email_id = enrich.tasks[k].email_id => i = k
    /\ \A r, s \in enrich.email_insights : r.email_id = s.email_id => r = s
    /\ \A r, s \in enrich.parts_recommended :
            r.email_id = s.email_id /\ r.part_number = s.part_number => r = s

ImportRows == 1..MaxRuns

Created(n) == Len(page.imports) >= n

Completed(n) == Created(n) /\ page.imports[n].status = "completed"

Completes(n) == Created(n) /\ ~Completed(n) /\ page'.imports[n].status = "completed"

\* C30: every import row created with status 'processing' eventually has
\* status 'completed' and emails_processed = the processed count returned
\* by parse(), whatever opening and parsing the archive do; the row is
\* completed only after parse() has returned, and a completed row stays
\* as it is.
C30_ImportCompletes ==
    /\ \A n \in ImportRows : Created(n) ~> Completed(n)
    /\ [][\A n \in ImportRows :
            Completes(n) =>
                /\ pc = "done" /\ import_id = page.imports[n].id
                /\ page'.imports[n].emails_processed = stats.processed]_vars
    /\ [][\A n \in ImportRows :
            Completed(n) => page'.imports[n] = page.imports[n]]_vars

\* the parts of C30 about the order and the permanence of 'completed'
C30_CompletedAfterParse ==
    /\ [][\A n \in ImportRows :
            Completes(n) =>
                /\ pc = "done" /\ import_id = page.imports[n].id
                /\ page'.imports[n].emails_processed = stats.processed]_vars
    /\ [][\A n \in ImportRows :
            Completed(n) => page'.imports[n] = page.imports[n]]_vars

====
